---- MODULE Spec2Model ----
(***************************************************************************)
(* A model of spectralint's cross-document consistency core: the           *)
(* identifier normalizer (checkers/utils.rs), the naming-inconsistency     *)
(* checker (checkers/naming_inconsistency.rs), the enum-drift checker      *)
(* (checkers/enum_drift.rs) and the engine's sort and dedup                 *)
(* (engine/mod.rs).                                                         *)
(*                                                                         *)
(* A Rust String is modelled as a sequence of characters, a character as a *)
(* one-letter TLA+ string.                                                 *)
(***************************************************************************)
EXTENDS Integers, Sequences, FiniteSets, TLC

VARIABLES
    pc,         \* the position of the run
    input,      \* normalizer run: the raw identifier handed to normalize
    key,        \* normalizer run: normalize(input) once it was called
    key2,       \* normalizer run: normalize(key) once it was called
    words,      \* rendering run: the word sequence that is rendered
    rendered,   \* rendering run: the keys of the renderings once normalized
    ctx_files,  \* engine run: the parsed corpus (ctx.files), sorted by path
    config,     \* engine run: the scope and historical patterns
    naming,     \* engine run: what NamingInconsistencyChecker::check returned
    drift,      \* engine run: what EnumDriftChecker::check returned
    output,     \* engine run: the diagnostics run returned
    previous    \* engine run: the outputs of the earlier runs on this corpus

normVars == <<input, key, key2, words, rendered>>

engineVars == <<ctx_files, config, naming, drift, output, previous>>

vars == <<pc, input, key, key2, words, rendered,
          ctx_files, config, naming, drift, output, previous>>

----------------------------------------------------------------------------
(* Characters                                                              *)

UpperAscii == <<"A","B","C","D","E","F","G","H","I","J","K","L","M",
                "N","O","P","Q","R","S","T","U","V","W","X","Y","Z">>

LowerAscii == <<"a","b","c","d","e","f","g","h","i","j","k","l","m",
                "n","o","p","q","r","s","t","u","v","w","x","y","z">>

\* The non-ASCII letters of the model: U+00C9 and its lowercase U+00E9.
UpperNonAscii == <<"É">>

LowerNonAscii == <<"é">>

Range(seq) == {seq[k] : k \in 1..Len(seq)}

IndexOf(seq, c) == CHOOSE k \in 1..Len(seq) : seq[k] = c

\* char::is_uppercase (Unicode property Uppercase)
IsUppercase(c) == c \in Range(UpperAscii) \cup Range(UpperNonAscii)

\* char::is_lowercase (Unicode property Lowercase)
IsLowercase(c) == c \in Range(LowerAscii) \cup Range(LowerNonAscii)

\* char::to_ascii_lowercase: only 'A'..'Z' change
ToAsciiLowercase(c) ==
    IF c \in Range(UpperAscii) THEN LowerAscii[IndexOf(UpperAscii, c)] ELSE c

\* the Unicode lowercase mapping of one character (str::to_lowercase)
CharToLowercase(c) ==
    IF c \in Range(UpperAscii) THEN LowerAscii[IndexOf(UpperAscii, c)]
    ELSE IF c \in Range(UpperNonAscii) THEN LowerNonAscii[IndexOf(UpperNonAscii, c)]
    ELSE c

\* str::to_lowercase
ToLowercase(s) == [k \in 1..Len(s) |-> CharToLowercase(s[k])]

\* the delimiters normalize drops
IsDelimiter(c) == c = "_" \/ c = "-" \/ c = " "

----------------------------------------------------------------------------
(* normalize (checkers/utils.rs)                                            *)

\* a push that does not test `current.is_empty()`
PushEvenIfEmpty(parts, current) == Append(parts, current)

\* `if !current.is_empty() { parts.push(take(&mut current)) }`
PushCurrent(parts, current) ==
    IF current # <<>> THEN Append(parts, current) ELSE parts

RECURSIVE UpperRunEnd(_, _)
\* the inner `while j < len && chars[j].is_uppercase()`: the first index at or
\* after j (1-based) that holds no uppercase letter, Len + 1 if there is none
UpperRunEnd(chars, j) ==
    IF j <= Len(chars) /\ IsUppercase(chars[j])
    THEN UpperRunEnd(chars, j + 1)
    ELSE j

\* an acronym pushed as it is spelled
AcronymNoLowercase(run) == run

\* `acronym.to_lowercase()`
AcronymPart(run) == ToLowercase(run)

\* a single uppercase letter that drops the token before it
SingleUpperKeepsCurrent(parts, current) == parts

\* the flush before a single uppercase letter starts a token
SingleUpperFlush(parts, current) == PushCurrent(parts, current)

\* an acronym that never hands its last letter to the next token
NeverFollowed(chars, j) == FALSE

\* `j < len && chars[j].is_lowercase()`, j 1-based
FollowedByLowercase(chars, j) == j <= Len(chars) /\ IsLowercase(chars[j])

RECURSIVE NormalizeLoop(_, _, _, _)
\* the `while i < len` loop, i 1-based; returns parts after the final push
NormalizeLoop(chars, i, parts, current) ==
    IF i > Len(chars) THEN PushCurrent(parts, current)
    ELSE
      LET c == chars[i] IN
      IF IsDelimiter(c)
      THEN NormalizeLoop(chars, i + 1, PushCurrent(parts, current), <<>>)
      ELSE IF IsUppercase(c)
      THEN
        LET j == UpperRunEnd(chars, i)
            upper_len == j - i
        IN
        IF upper_len > 1
        THEN
          LET flushed == PushCurrent(parts, current) IN
          IF FollowedByLowercase(chars, j)
          THEN NormalizeLoop(chars, j,
                   Append(flushed, AcronymPart(SubSeq(chars, i, j - 2))),
                   <<ToAsciiLowercase(chars[j - 1])>>)
          ELSE NormalizeLoop(chars, j,
                   Append(flushed, AcronymPart(SubSeq(chars, i, j - 1))),
                   <<>>)
        ELSE NormalizeLoop(chars, i + 1, SingleUpperFlush(parts, current),
                           <<ToAsciiLowercase(c)>>)
      ELSE NormalizeLoop(chars, i + 1, parts,
                         Append(current, ToAsciiLowercase(c)))

\* the tokens normalize joins
NormalizeParts(name) == NormalizeLoop(name, 1, <<>>, <<>>)

RECURSIVE Join(_, _)
\* `parts.join(sep)`
Join(parts, sep) ==
    IF parts = <<>> THEN <<>>
    ELSE IF Len(parts) = 1 THEN parts[1]
    ELSE parts[1] \o sep \o Join(Tail(parts), sep)

\* a join that leaves the separator out
JoinNoSeparator(parts) == Join(parts, <<>>)

\* `parts.join("_")`
JoinParts(parts) == Join(parts, <<"_">>)

normalize(name) == JoinParts(NormalizeParts(name))

----------------------------------------------------------------------------
(* Strings: byte-wise ordering, trimming, number formatting                 *)

\* the printable ASCII characters in code order, U+0020 to U+007E (the
\* grave accent is written by its code point)
AsciiPrintable ==
    <<" ","!","\"","#","$","%","&","'","(",")","*","+",",","-",".","/","0",
      "1","2","3","4","5","6","7","8","9",":",";","<","=",">","?","@","A",
      "B","C","D","E","F","G","H","I","J","K","L","M","N","O","P","Q","R",
      "S","T","U","V","W","X","Y","Z","[","\\","]","^","_","U+0060","a","b","c",
      "d","e","f","g","h","i","j","k","l","m","n","o","p","q","r","s","t",
      "u","v","w","x","y","z","{","|","}","~">>

\* every character of the model in the order of its UTF-8 encoding
CharOrder == AsciiPrintable \o UpperNonAscii \o LowerNonAscii

CharCode == [c \in Range(CharOrder) |-> IndexOf(CharOrder, c)]

RECURSIVE FirstDifference(_, _, _)
\* the first index from k on at which a and b differ, 0 if one ends first
FirstDifference(a, b, k) ==
    IF k > Len(a) \/ k > Len(b) THEN 0
    ELSE IF a[k] # b[k] THEN k
    ELSE FirstDifference(a, b, k + 1)

\* `a < b` of two str (lexicographic on the encoded bytes)
StrLess(a, b) ==
    LET k == FirstDifference(a, b, 1) IN
    IF k = 0 THEN Len(a) < Len(b) ELSE CharCode[a[k]] < CharCode[b[k]]

RECURSIVE SortedStrings(_)
\* the iteration order of a BTreeSet<&str>: ascending
SortedStrings(S) ==
    IF S = {} THEN <<>>
    ELSE LET least == CHOOSE x \in S : \A y \in S \ {x} : StrLess(x, y)
         IN <<least>> \o SortedStrings(S \ {least})

RECURSIVE TrimStart(_)
TrimStart(s) == IF s # <<>> /\ s[1] = " " THEN TrimStart(Tail(s)) ELSE s

RECURSIVE TrimEnd(_)
TrimEnd(s) ==
    IF s # <<>> /\ s[Len(s)] = " " THEN TrimEnd(SubSeq(s, 1, Len(s) - 1)) ELSE s

\* str::trim
Trim(s) == TrimEnd(TrimStart(s))

Digits == <<"0","1","2","3","4","5","6","7","8","9">>

RECURSIVE IntToStr(_)
\* the decimal digits of a natural number
IntToStr(n) ==
    IF n < 10 THEN <<Digits[n + 1]>>
    ELSE IntToStr(n \div 10) \o <<Digits[(n % 10) + 1]>>

RECURSIVE Concat(_)
\* the concatenation of a sequence of sequences
Concat(seqs) == IF seqs = <<>> THEN <<>> ELSE seqs[1] \o Concat(Tail(seqs))

----------------------------------------------------------------------------
(* strsim::jaro_winkler, as the checkers call it; a similarity is the       *)
(* fraction <<numerator, denominator>>                                      *)

Max(a, b) == IF a >= b THEN a ELSE b

Min(a, b) == IF a <= b THEN a ELSE b

RECURSIVE JaroMatches(_, _, _, _, _, _)
\* the matching loop of jaro: the 1-based indices flagged in a and in b
JaroMatches(a, b, range, i, a_flags, b_flags) ==
    IF i > Len(a) THEN <<a_flags, b_flags>>
    ELSE
      LET min_bound == IF (i - 1) > range THEN (i - 1) - range ELSE 0
          max_bound == Min(Len(b), (i - 1) + range + 1)
          cand == {j \in (min_bound + 1)..max_bound :
                      a[i] = b[j] /\ j \notin b_flags}
      IN IF cand = {}
         THEN JaroMatches(a, b, range, i + 1, a_flags, b_flags)
         ELSE LET j == CHOOSE x \in cand : \A y \in cand : x <= y
              IN JaroMatches(a, b, range, i + 1,
                             a_flags \cup {i}, b_flags \cup {j})

\* the flagged characters of s in order
Flagged(s, flags) ==
    LET Keep(k) == k \in flags
        idx == SelectSeq([k \in 1..Len(s) |-> k], Keep)
    IN [n \in 1..Len(idx) |-> s[idx[n]]]

\* jaro(a, b)
Jaro(a, b) ==
    IF Len(a) = 0 /\ Len(b) = 0 THEN <<1, 1>>
    ELSE IF Len(a) = 0 \/ Len(b) = 0 THEN <<0, 1>>
    ELSE
      LET half == Max(Len(a), Len(b)) \div 2
          range == IF half > 0 THEN half - 1 ELSE 0
          flags == JaroMatches(a, b, range, 1, {}, {})
          matches == Cardinality(flags[1])
          ma == Flagged(a, flags[1])
          mb == Flagged(b, flags[2])
          transpositions ==
              Cardinality({n \in 1..matches : ma[n] # mb[n]}) \div 2
      IN IF matches = 0 THEN <<0, 1>>
         ELSE <<matches * matches * Len(b) + matches * matches * Len(a)
                    + (matches - transpositions) * Len(a) * Len(b),
                3 * Len(a) * Len(b) * matches>>

RECURSIVE CommonPrefix(_, _, _)
\* the length of the common prefix of a and b, counted up to `most`
CommonPrefix(a, b, most) ==
    IF most = 0 \/ a = <<>> \/ b = <<>> \/ a[1] # b[1] THEN 0
    ELSE 1 + CommonPrefix(Tail(a), Tail(b), most - 1)

\* jaro_winkler(a, b): the prefix bonus of 0.1 per character, up to 4
\* characters, when the jaro similarity is above 0.7
jaro_winkler(a, b) ==
    LET sim == Jaro(a, b) IN
    IF 10 * sim[1] > 7 * sim[2]
    THEN LET prefix_length == CommonPrefix(a, b, 4)
         IN <<10 * sim[1] + prefix_length * (sim[2] - sim[1]), 10 * sim[2]>>
    ELSE sim

\* `similarity >= percent / 100`
AtLeastPercent(sim, percent) == 100 * sim[1] >= percent * sim[2]

\* `{:.0}` of similarity * 100.0: the nearest integer, ties to even
RoundedPercent(sim) ==
    LET twice == 200 * sim[1] + sim[2]
        q == twice \div (2 * sim[2])
    IN IF twice % (2 * sim[2]) = 0 /\ q % 2 = 1 THEN q - 1 ELSE q

----------------------------------------------------------------------------
(* Message texts                                                            *)

TxtInconsistentNaming ==
    <<"I","n","c","o","n","s","i","s","t","e","n","t"," ","n","a","m","i",
      "n","g",":"," ">>

TxtVs ==
    <<" ","v","s"," ">>

TxtReferSame ==
    <<" ","r","e","f","e","r"," ","t","o"," ","t","h","e"," ","s","a","m",
      "e"," ","c","o","n","c","e","p","t">>

TxtStandardize ==
    <<"S","t","a","n","d","a","r","d","i","z","e"," ","t","o"," ","o","n",
      "e"," ","f","o","r","m",":"," ","u","s","e"," ","e","i","t","h","e",
      "r"," ","\"">>

TxtOr ==
    <<"\""," ","o","r"," ","\"">>

TxtConsistently ==
    <<"\""," ","c","o","n","s","i","s","t","e","n","t","l","y">>

TxtSimilarNames ==
    <<"S","i","m","i","l","a","r"," ","n","a","m","e","s",":"," ","\"">>

TxtAnd ==
    <<"\""," ","a","n","d"," ","\"">>

TxtMightRefer ==
    <<"\""," ","m","i","g","h","t"," ","r","e","f","e","r"," ","t","o"," ",
      "t","h","e"," ","s","a","m","e"," ","c","o","n","c","e","p","t"," ",
      "(","s","i","m","i","l","a","r","i","t","y",":"," ">>

TxtPercentClose ==
    <<"%",")">>

----------------------------------------------------------------------------
(* The patterns of the naming-inconsistency checker                         *)

IsDigit(c) == c \in Range(Digits)

\* `\s` over the characters of the model
IsSpace(c) == c = " "

\* `a.eq_ignore_ascii_case(b)`
EqIgnoreAsciiCase(a, b) ==
    /\ Len(a) = Len(b)
    /\ \A k \in 1..Len(a) : ToAsciiLowercase(a[k]) = ToAsciiLowercase(b[k])

RECURSIVE LeadingDigits(_)
\* the number of digits s starts with (a greedy `\d*`)
LeadingDigits(s) ==
    IF s # <<>> /\ IsDigit(s[1]) THEN 1 + LeadingDigits(Tail(s)) ELSE 0

RECURSIVE LeadingSpaces(_)
\* the number of whitespace characters s starts with (a greedy `\s*`)
LeadingSpaces(s) ==
    IF s # <<>> /\ IsSpace(s[1]) THEN 1 + LeadingSpaces(Tail(s)) ELSE 0

\* s without its first n characters
Drop(s, n) == SubSeq(s, n + 1, Len(s))

\* s starts with word, case-insensitively
StartsWithIgnoreCase(s, word) ==
    Len(s) >= Len(word) /\ EqIgnoreAsciiCase(SubSeq(s, 1, Len(word)), word)

MonthNames ==
    {<<"j","a","n">>, <<"f","e","b">>, <<"m","a","r">>, <<"a","p","r">>,
     <<"m","a","y">>, <<"j","u","n">>, <<"j","u","l">>, <<"a","u","g">>,
     <<"s","e","p">>, <<"o","c","t">>, <<"n","o","v">>, <<"d","e","c">>}

\* `\d{4}[-/]\d{2}[-/]\d{2}` over the whole of s
IsIsoDate(s) ==
    /\ Len(s) = 10
    /\ \A k \in {1, 2, 3, 4, 6, 7, 9, 10} : IsDigit(s[k])
    /\ \A k \in {5, 8} : s[k] \in {"-", "/"}

\* `(?:jan|...|dec)\s+\d{1,2},?\s*\d{4}` over the whole of s
IsMonthDate(s) ==
    /\ \E m \in MonthNames : StartsWithIgnoreCase(s, m)
    /\ LET afterMonth == Drop(s, 3)
           spaces == LeadingSpaces(afterMonth)
           day == Drop(afterMonth, spaces)
       IN /\ spaces >= 1
          /\ \E n \in 1..2 :
               /\ LeadingDigits(day) >= n
               /\ LET afterDay == Drop(day, n)
                      afterComma == IF afterDay # <<>> /\ afterDay[1] = ","
                                    THEN {afterDay, Tail(afterDay)}
                                    ELSE {afterDay}
                  IN \E rest \in afterComma :
                       LET year == Drop(rest, LeadingSpaces(rest)) IN
                       Len(year) = 4 /\ LeadingDigits(year) = 4

\* `\d{1,2}:\d{2}\s*(?:am|pm)` over the whole of s
IsClockTime(s) ==
    \E n \in 1..2 :
      /\ LeadingDigits(s) >= n
      /\ LET afterHour == Drop(s, n) IN
         /\ Len(afterHour) >= 3
         /\ afterHour[1] = ":"
         /\ IsDigit(afterHour[2])
         /\ IsDigit(afterHour[3])
         /\ LET tail == Drop(afterHour, 3)
                half == Drop(tail, LeadingSpaces(tail))
            IN \/ EqIgnoreAsciiCase(half, <<"a","m">>)
               \/ EqIgnoreAsciiCase(half, <<"p","m">>)

\* a pattern that matches no text
NeverDate(s) == FALSE

\* DATE_PATTERN.is_match
DatePatternMatches(s) == IsIsoDate(s) \/ IsMonthDate(s) \/ IsClockTime(s)

\* the length of the match of NUMBERED_PREFIX at the start of s, 0 if none:
\* `\d+\.\s*` or `(?:step|phase)\s+\d+[:\s]\s*`
NumberedPrefixLen(s) ==
    LET digits == LeadingDigits(s) IN
    IF digits >= 1 /\ Len(s) > digits /\ s[digits + 1] = "."
    THEN digits + 1 + LeadingSpaces(Drop(s, digits + 1))
    ELSE
      LET word == IF StartsWithIgnoreCase(s, <<"s","t","e","p">>) THEN 4
                  ELSE IF StartsWithIgnoreCase(s, <<"p","h","a","s","e">>) THEN 5
                  ELSE 0
          afterWord == Drop(s, word)
          spaces == LeadingSpaces(afterWord)
          afterSpaces == Drop(afterWord, spaces)
          number == LeadingDigits(afterSpaces)
          afterNumber == Drop(afterSpaces, number)
      IN IF /\ word > 0
            /\ spaces >= 1
            /\ number >= 1
            /\ afterNumber # <<>>
            /\ (afterNumber[1] = ":" \/ IsSpace(afterNumber[1]))
         THEN word + spaces + number + 1 + LeadingSpaces(Tail(afterNumber))
         ELSE 0

\* strip_numbered_prefix
strip_numbered_prefix(name) == Drop(name, NumberedPrefixLen(name))

\* YAML_FRONTMATTER.is_match: `^[a-z][-a-z_]*:`
YamlFrontmatterMatches(s) ==
    /\ s # <<>>
    /\ s[1] \in Range(LowerAscii)
    /\ \E k \in 2..Len(s) :
         /\ s[k] = ":"
         /\ \A n \in 2..(k - 1) : s[n] \in Range(LowerAscii) \cup {"-", "_"}

\* `original.chars().filter(|c| !c.is_ascii_digit()).collect()`
\* the spelling with its digits left in
DigitsKept(s) == s

WithoutDigits(s) ==
    LET NotDigit(c) == ~IsDigit(c) IN SelectSeq(s, NotDigit)

----------------------------------------------------------------------------
(* NamingInconsistencyChecker::check (checkers/naming_inconsistency.rs)     *)

\* the severities and categories the two checkers emit
Info == "info"

Warning == "warning"

NamingInconsistency == "naming-inconsistency"

EnumDrift == "enum-drift"

\* `emit!`: one Diagnostic; the file is the index of the document in
\* ctx.files, which scanner::scan keeps sorted by path
Diagnostic(file, line, severity, category, message, suggestion) ==
    [file |-> file, line |-> line, severity |-> severity,
     category |-> category, message |-> message, suggestion |-> suggestion]

\* the occurrences of the headers of one table, trimmed, empty ones dropped
HeaderOccurrences(file_idx, table) ==
    LET NonEmpty(o) == o.original # <<>> IN
    SelectSeq([k \in 1..Len(table.headers) |->
                  [original |-> Trim(table.headers[k]),
                   file_idx |-> file_idx, line |-> table.line]],
              NonEmpty)

\* the occurrences of the section titles of one file
SectionOccurrences(file_idx, sections) ==
    LET NonEmpty(o) == o.original # <<>> IN
    SelectSeq([k \in 1..Len(sections) |->
                  [original |-> Trim(sections[k].title),
                   file_idx |-> file_idx, line |-> sections[k].line]],
              NonEmpty)

\* the occurrences of one file: table headers first, then section titles
FileOccurrences(file_idx, file) ==
    Concat([t \in 1..Len(file.tables) |->
               HeaderOccurrences(file_idx, file.tables[t])])
      \o SectionOccurrences(file_idx, file.sections)

\* the `occurrences` vector: the files in order, files out of scope skipped
CollectOccurrences(files, in_scope) ==
    Concat([f \in 1..Len(files) |->
               IF f \in in_scope THEN FileOccurrences(f, files[f]) ELSE <<>>])

RECURSIVE GroupFrom(_, _, _)
\* groups.entry(normalize(&occ.original)).or_default().push(occ), for the
\* occurrences from the k-th on
GroupFrom(occurrences, k, groups) ==
    IF k > Len(occurrences) THEN groups
    ELSE LET occ == occurrences[k]
             g == normalize(occ.original)
         IN GroupFrom(occurrences, k + 1,
                IF g \in DOMAIN groups
                THEN [groups EXCEPT ![g] = Append(@, occ)]
                ELSE groups @@ (g :> <<occ>>))

\* the `groups` map: under each normalized key the occurrences with that key,
\* in the order they were collected
BuildGroups(occurrences) == GroupFrom(occurrences, 1, <<>>)

\* the distinct spellings of a group (unique_originals, before ordering)
UniqueOriginals(group) == {group[k].original : k \in 1..Len(group)}

\* `lowered`
Lowered(originals) == {ToLowercase(o) : o \in originals}

\* a group taken to span files whatever its occurrences
AlwaysSpans(group) == TRUE

\* `group.iter().any(|o| o.file_idx != group[0].file_idx)`
SpansFiles(group) ==
    \E k \in 1..Len(group) : group[k].file_idx # group[1].file_idx

\* spellings never taken to differ by case alone
NeverCaseOnly(originals) == FALSE

\* `lowered.len() < 2`
CaseOnly(originals) == Cardinality(Lowered(originals)) < 2

\* `format!("\"{s}\"")`
Quoted(s) == <<"\"">> \o s \o <<"\"">>

\* the message of an exact-variant warning
VariantMessage(originals) ==
    TxtInconsistentNaming
      \o Join([k \in 1..Len(originals) |-> Quoted(originals[k])], TxtVs)
      \o TxtReferSame

\* the suggestion of both kinds of naming finding
StandardizeSuggestion(a, b) ==
    TxtStandardize \o a \o TxtOr \o b \o TxtConsistently

\* one finding for the whole group, at its first occurrence
OnlyFirstOccurrence(group, msg, suggestion) ==
    <<Diagnostic(group[1].file_idx, group[1].line, Warning,
                 NamingInconsistency, msg, suggestion)>>

\* `for occ in group { emit!(...) }`
EmitPerOccurrence(group, msg, suggestion) ==
    [k \in 1..Len(group) |->
        Diagnostic(group[k].file_idx, group[k].line, Warning,
                   NamingInconsistency, msg, suggestion)]

\* the body of `for group in groups.values()`: the warnings of one group
VariantFindings(group) ==
    LET unique == UniqueOriginals(group) IN
    IF Cardinality(unique) < 2 THEN <<>>
    ELSE IF CaseOnly(unique) THEN <<>>
    ELSE IF ~SpansFiles(group) THEN <<>>
    ELSE LET originals == SortedStrings(unique)
         IN EmitPerOccurrence(group, VariantMessage(originals),
                StandardizeSuggestion(originals[1], originals[2]))

\* `k.split('_').count() >= 2`
\* a filter that lets every key pass
AnySegments(k) == TRUE

HasTwoSegments(k) == \E n \in 1..Len(k) : k[n] = "_"

\* the files of a group
GroupFiles(group) == {group[k].file_idx : k \in 1..Len(group)}

\* the message of a near-miss info
SimilarMessage(a, b, similarity) ==
    TxtSimilarNames \o a \o TxtAnd \o b \o TxtMightRefer
      \o IntToStr(RoundedPercent(similarity)) \o TxtPercentClose

\* the threshold of the near-miss detector, in percent
NearMissThreshold == 95

\* a pair never taken to lie in the same files
SameFilesNotSkipped(group_a, group_b) == FALSE

\* `files_a == files_b`
SameFiles(group_a, group_b) == GroupFiles(group_a) = GroupFiles(group_b)

\* numbered headings compared like any other pair
PrefixNeverSkipped(stripped_a, stripped_b) == FALSE

\* `!stripped_a.is_empty() && stripped_a.eq_ignore_ascii_case(stripped_b)`
SamePrefixedName(stripped_a, stripped_b) ==
    stripped_a # <<>> /\ EqIgnoreAsciiCase(stripped_a, stripped_b)

\* the infos go to the occurrences of the first group only
FirstGroupOnly(group_a, group_b) == group_a

\* `group_a.iter().chain(group_b.iter())`
BothGroups(group_a, group_b) == group_a \o group_b

\* the body of the pair loop: the infos of one pair of keys
NearMissFindings(groups, key_a, key_b) ==
    LET similarity == jaro_winkler(key_a, key_b) IN
    IF ~AtLeastPercent(similarity, NearMissThreshold) THEN <<>>
    ELSE
      LET group_a == groups[key_a]
          group_b == groups[key_b]
          first_a == group_a[1].original
          first_b == group_b[1].original
          stripped_a == strip_numbered_prefix(first_a)
          stripped_b == strip_numbered_prefix(first_b)
          no_digits_a == WithoutDigits(first_a)
          no_digits_b == WithoutDigits(first_b)
      IN
      IF DatePatternMatches(first_a) \/ DatePatternMatches(first_b) THEN <<>>
      ELSE IF YamlFrontmatterMatches(first_a) \/ YamlFrontmatterMatches(first_b)
      THEN <<>>
      ELSE IF SamePrefixedName(stripped_a, stripped_b) THEN <<>>
      ELSE IF no_digits_a # <<>> /\ EqIgnoreAsciiCase(no_digits_a, no_digits_b)
      THEN <<>>
      ELSE IF SameFiles(group_a, group_b) THEN <<>>
      ELSE
        LET msg == SimilarMessage(first_a, first_b, similarity)
            suggestion == StandardizeSuggestion(first_a, first_b)
            both == BothGroups(group_a, group_b)
        IN [k \in 1..Len(both) |->
               Diagnostic(both[k].file_idx, both[k].line, Info,
                          NamingInconsistency, msg, suggestion)]

\* the pair loop over group_keys: `for i .. for j in (i + 1)..`
NearMissLoop(groups, group_keys) ==
    Concat([i \in 1..Len(group_keys) |->
        Concat([d \in 1..(Len(group_keys) - i) |->
            NearMissFindings(groups, group_keys[i], group_keys[i + d])])])

\* check, after the occurrences are grouped: `order` is the order in which
\* the HashMap `groups` is iterated, by groups.values() and by groups.keys()
NamingCheck(groups, order) ==
    Concat([n \in 1..Len(order) |-> VariantFindings(groups[order[n]])])
      \o NearMissLoop(groups, SelectSeq(order, HasTwoSegments))

RECURSIVE Orders(_)
\* the orders a HashMap with the key set S can be iterated in
Orders(S) ==
    IF S = {} THEN {<<>>}
    ELSE UNION {{<<k>> \o o : o \in Orders(S \ {k})} : k \in S}

----------------------------------------------------------------------------
(* Scope and historical filters (checkers/utils.rs, engine/scanner.rs,      *)
(* engine/cross_ref.rs)                                                     *)

RECURSIVE GlobMatches(_, _)
\* a case-insensitive glob of literal characters and `*` against a path
GlobMatches(pattern, path) ==
    IF pattern = <<>> THEN path = <<>>
    ELSE IF pattern[1] = "*"
    THEN \/ GlobMatches(Tail(pattern), path)
         \/ path # <<>> /\ GlobMatches(pattern, Tail(path))
    ELSE /\ path # <<>>
         /\ CharToLowercase(pattern[1]) = CharToLowercase(path[1])
         /\ GlobMatches(Tail(pattern), Tail(path))

RECURSIVE FileName(_)
\* Path::file_name: what follows the last `/`
FileName(path) ==
    IF \E k \in 1..Len(path) : path[k] = "/"
    THEN FileName(Tail(path))
    ELSE path

\* matches_glob: the bare file name or the path relative to the root matches
\* a pattern of the set
matches_glob(path, patterns) ==
    \E k \in 1..Len(patterns) :
        \/ GlobMatches(patterns[k], FileName(path))
        \/ GlobMatches(patterns[k], path)

\* a scope that includes every path whatever its patterns
ScopeIgnored(patterns, path) == TRUE

\* ScopeFilter::includes: no pattern, or a pattern matches
ScopeIncludes(patterns, path) ==
    patterns = <<>> \/ matches_glob(path, patterns)

\* the indices of the files a scope includes
InScope(files, patterns) ==
    {f \in 1..Len(files) : ScopeIncludes(patterns, files[f].path)}

\* a context in which no file is historical
NoneHistorical(files, patterns) == {}

\* CheckerContext::build: historical_indices
HistoricalIndices(files, patterns) ==
    {f \in 1..Len(files) : matches_glob(files[f].path, patterns)}

----------------------------------------------------------------------------
(* EnumDriftChecker::check (checkers/enum_drift.rs)                         *)

TxtColumn ==
    <<"C","o","l","u","m","n"," ","\"">>

TxtHasValues ==
    <<"\""," ","h","a","s"," ","v","a","l","u","e","s"," ">>

TxtNotFoundIn ==
    <<" ","n","o","t"," ","f","o","u","n","d"," ","i","n"," ">>

TxtAlign ==
    <<"A","l","i","g","n"," ","t","h","e"," ","v","a","l","u","e"," ","s",
      "e","t","s"," ","a","c","r","o","s","s"," ","f","i","l","e","s"," ",
      "o","r"," ","d","o","c","u","m","e","n","t"," ","w","h","y"," ","t",
      "h","e","y"," ","d","i","f","f","e","r">>

TxtEllipsis ==
    <<".",".",".","\"">>

TxtCommaSpace ==
    <<","," ">>

\* the length above which a value is shown truncated
TruncateAt == 50

\* the threshold of the section-title fallback of tables_match, in percent
SectionThreshold == 80

RECURSIVE NormalizedHeaders(_, _, _)
\* `table.headers.iter().map(|h| normalize(h)).collect()`, from the h-th on
NormalizedHeaders(headers, h, done) ==
    IF h > Len(headers) THEN done
    ELSE NormalizedHeaders(headers, h + 1, Append(done, normalize(headers[h])))

\* table_refs: the tables of the files that are in scope and not historical,
\* files in order, each with its normalized headers
TableRefs(files, in_scope, historical) ==
    Concat([f \in 1..Len(files) |->
        IF f \in in_scope /\ f \notin historical
        THEN [t \in 1..Len(files[f].tables) |->
                 [table |-> files[f].tables[t],
                  file_idx |-> f,
                  normalized_headers |->
                      NormalizedHeaders(files[f].tables[t].headers, 1, <<>>)]]
        ELSE <<>>])

\* shared_count: the headers of a, as often as they are listed, that b has
SharedCount(a, b) ==
    Cardinality({h \in 1..Len(a.normalized_headers) :
        \E n \in 1..Len(b.normalized_headers) :
            b.normalized_headers[n] = a.normalized_headers[h]})

\* a matcher without the fallback on the section titles
TwoHeadersOnly(a, b) == SharedCount(a, b) >= 2

tables_match(a, b) ==
    LET shared_count == SharedCount(a, b) IN
    IF shared_count >= 2 THEN TRUE
    ELSE IF shared_count >= 1
    THEN /\ a.table.parent_section # <<>>
         /\ b.table.parent_section # <<>>
         /\ AtLeastPercent(jaro_winkler(a.table.parent_section[1],
                                        b.table.parent_section[1]),
                           SectionThreshold)
    ELSE FALSE

\* the cut made from TruncateAt characters on
CutFromLimit(vals) ==
    LET sorted == SortedStrings(vals) IN
    Join([k \in 1..Len(sorted) |->
            IF Len(sorted[k]) >= TruncateAt
            THEN <<"\"">> \o SubSeq(sorted[k], 1, TruncateAt) \o TxtEllipsis
            ELSE Quoted(sorted[k])],
         TxtCommaSpace)

\* format_values: the values sorted, each quoted, a value of more than
\* TruncateAt characters cut to its first TruncateAt and "..." appended
FormatValues(vals) ==
    LET sorted == SortedStrings(vals) IN
    Join([k \in 1..Len(sorted) |->
            IF Len(sorted[k]) > TruncateAt
            THEN <<"\"">> \o SubSeq(sorted[k], 1, TruncateAt) \o TxtEllipsis
            ELSE Quoted(sorted[k])],
         TxtCommaSpace)

\* a row that does not reach every column left out whole
ShortRowsSkipped(table, col) ==
    {Trim(table.rows[r][col]) :
        r \in {x \in 1..Len(table.rows) :
                  Len(table.headers) <= Len(table.rows[x])}} \ {<<>>}

\* collect_values: the trimmed, non-empty cells of column col, rows that do
\* not reach the column skipped (`row.get(col)`)
CollectValues(table, col) ==
    {Trim(table.rows[r][col]) :
        r \in {x \in 1..Len(table.rows) : col <= Len(table.rows[x])}} \ {<<>>}

DriftMessage(header, diff, other_path) ==
    TxtColumn \o header \o TxtHasValues \o FormatValues(diff)
      \o TxtNotFoundIn \o FileName(other_path)

\* the key of `seen`: "{file}:{line}:{msg}"
SeenKey(path, line, msg) == path \o <<":">> \o IntToStr(line) \o <<":">> \o msg

\* a finding pushed without the lookup in `seen`
EmitEvenIfSeen(files, st, diff, src, col, other) ==
    IF diff = {} THEN st
    ELSE
      LET msg == DriftMessage(src.table.headers[col], diff,
                              files[other.file_idx].path)
      IN [result |-> Append(st.result,
                        Diagnostic(src.file_idx, src.table.line, Warning,
                                   EnumDrift, msg, TxtAlign)),
          seen |-> st.seen]

\* one round of the loop over the two sides of a column: st is the pair of
\* the result so far and the keys seen so far
EmitDrift(files, st, diff, src, col, other) ==
    IF diff = {} THEN st
    ELSE
      LET msg == DriftMessage(src.table.headers[col], diff,
                              files[other.file_idx].path)
          seen_key == SeenKey(files[src.file_idx].path, src.table.line, msg)
      IN IF seen_key \in st.seen THEN st
         ELSE [result |-> Append(st.result,
                              Diagnostic(src.file_idx, src.table.line, Warning,
                                         EnumDrift, msg, TxtAlign)),
               seen |-> st.seen \cup {seen_key}]

\* the loop over the columns with the side of b left out
OnlyFirstSide(files, st, a, b, col_a) ==
    LET positions == {n \in 1..Len(b.normalized_headers) :
                         b.normalized_headers[n] = a.normalized_headers[col_a]}
    IN IF positions = {} THEN st
       ELSE
         LET col_b == CHOOSE x \in positions : \A y \in positions : x <= y
             only_in_a == CollectValues(a.table, col_a) \ CollectValues(b.table, col_b)
         IN EmitDrift(files, st, only_in_a, a, col_a, b)

\* the body of the loop over the columns of a
DriftOfColumn(files, st, a, b, col_a) ==
    LET positions == {n \in 1..Len(b.normalized_headers) :
                         b.normalized_headers[n] = a.normalized_headers[col_a]}
    IN IF positions = {} THEN st
       ELSE
         LET col_b == CHOOSE x \in positions : \A y \in positions : x <= y
             values_a == CollectValues(a.table, col_a)
             values_b == CollectValues(b.table, col_b)
             only_in_a == values_a \ values_b
             only_in_b == values_b \ values_a
         IN IF only_in_a = {} /\ only_in_b = {} THEN st
            ELSE EmitDrift(files,
                     EmitDrift(files, st, only_in_a, a, col_a, b),
                     only_in_b, b, col_b, a)

RECURSIVE DriftColumns(_, _, _, _, _)
\* check_drift: the columns of a from col_a on
DriftColumns(files, st, a, b, col_a) ==
    IF col_a > Len(a.normalized_headers) THEN st
    ELSE DriftColumns(files, DriftOfColumn(files, st, a, b, col_a), a, b, col_a + 1)

check_drift(files, st, a, b) == DriftColumns(files, st, a, b, 1)

\* the pairs <<i, j>>, i < j, in the order of the two nested loops
PairsInOrder(n) ==
    Concat([i \in 1..n |-> [d \in 1..(n - i) |-> <<i, i + d>>]])

\* tables of one file compared like any other pair
SameFileCompared(a, b) == TRUE

\* `a.file_idx == b.file_idx` is skipped
DifferentFiles(a, b) == a.file_idx # b.file_idx

RECURSIVE DriftPairs(_, _, _, _, _)
\* the pair loop of check over table_refs, from the n-th pair on
DriftPairs(files, st, table_refs, pairs, n) ==
    IF n > Len(pairs) THEN st
    ELSE
      LET a == table_refs[pairs[n][1]]
          b == table_refs[pairs[n][2]]
      IN DriftPairs(files,
             IF DifferentFiles(a, b) /\ tables_match(a, b)
             THEN check_drift(files, st, a, b)
             ELSE st,
             table_refs, pairs, n + 1)

EnumDriftCheck(files, in_scope, historical) ==
    LET table_refs == TableRefs(files, in_scope, historical) IN
    DriftPairs(files, [result |-> <<>>, seen |-> {}], table_refs,
               PairsInOrder(Len(table_refs)), 1).result

----------------------------------------------------------------------------
(* Inline suppression (engine/suppress.rs)                                  *)

Disable == "disable"

Enable == "enable"

DisableNextLine == "disable-next-line"

\* the position of the first open block with the rule, 0 if there is none
FirstOpenWithRule(open_blocks, rule) ==
    LET hits == {k \in 1..Len(open_blocks) : open_blocks[k].rule = rule} IN
    IF hits = {} THEN 0 ELSE CHOOSE x \in hits : \A y \in hits : x <= y

\* the position of the last open block with the rule, 0 if there is none
\* (`rposition`)
LastOpenWithRule(open_blocks, rule) ==
    LET hits == {k \in 1..Len(open_blocks) : open_blocks[k].rule = rule} IN
    IF hits = {} THEN 0 ELSE CHOOSE x \in hits : \A y \in hits : x >= y

\* `open_blocks.remove(pos)`
RemoveAt(seq, pos) == SubSeq(seq, 1, pos - 1) \o SubSeq(seq, pos + 1, Len(seq))

\* one round of the loop over the comments of a file
RangeStep(st, comment) ==
    IF comment.kind = Disable
    THEN [ranges |-> st.ranges,
          open_blocks |-> Append(st.open_blocks,
                              [rule |-> comment.rule, start |-> comment.line])]
    ELSE IF comment.kind = Enable
    THEN LET pos == LastOpenWithRule(st.open_blocks, comment.rule) IN
         IF pos = 0 THEN st
         ELSE [ranges |-> Append(st.ranges,
                              [rule |-> st.open_blocks[pos].rule,
                               start_line |-> st.open_blocks[pos].start,
                               end_line |-> comment.line]),
               open_blocks |-> RemoveAt(st.open_blocks, pos)]
    ELSE [ranges |-> Append(st.ranges,
                        [rule |-> comment.rule,
                         start_line |-> comment.line + 1,
                         end_line |-> comment.line + 1]),
          open_blocks |-> st.open_blocks]

RECURSIVE RangeLoop(_, _, _)
RangeLoop(st, comments, n) ==
    IF n > Len(comments) THEN st
    ELSE RangeLoop(RangeStep(st, comments[n]), comments, n + 1)

\* build_ranges: a rule is <<>> (None) or <<category>> (Some)
build_ranges(comments, total_lines) ==
    LET st == RangeLoop([ranges |-> <<>>, open_blocks |-> <<>>], comments, 1) IN
    st.ranges \o [k \in 1..Len(st.open_blocks) |->
                     [rule |-> st.open_blocks[k].rule,
                      start_line |-> st.open_blocks[k].start,
                      end_line |-> total_lines]]

\* build_suppression_set and is_suppressed: a file without ranges has no
\* entry in the map, which is_suppressed reads as "not suppressed"
\* the rule of the range is not looked at
RuleIgnored(files, file, line, category) ==
    LET ranges == build_ranges(files[file].suppress_comments,
                               files[file].total_lines)
    IN \E k \in 1..Len(ranges) :
         /\ line >= ranges[k].start_line
         /\ line <= ranges[k].end_line

is_suppressed(files, file, line, category) ==
    LET ranges == build_ranges(files[file].suppress_comments,
                               files[file].total_lines)
    IN \E k \in 1..Len(ranges) :
         /\ line >= ranges[k].start_line
         /\ line <= ranges[k].end_line
         /\ (ranges[k].rule = <<>> \/ ranges[k].rule = <<category>>)

----------------------------------------------------------------------------
(* engine::run (engine/mod.rs): retain, sort_by, dedup_by                   *)

\* the derived Ord of Category follows the order of the variants
CategoryRank(category) == IF category = NamingInconsistency THEN 1 ELSE 2

\* (file, line, category, message) of a comes before that of b
DiagnosticLess(a, b) ==
    IF a.file # b.file THEN a.file < b.file
    ELSE IF a.line # b.line THEN a.line < b.line
    ELSE IF a.category # b.category
    THEN CategoryRank(a.category) < CategoryRank(b.category)
    ELSE StrLess(a.message, b.message)

\* d inserted after the elements that are not greater than it
InsertSorted(sorted, d) ==
    LET later == {k \in 1..Len(sorted) : DiagnosticLess(d, sorted[k])}
        at == IF later = {} THEN Len(sorted) + 1
              ELSE CHOOSE x \in later : \A y \in later : x <= y
    IN SubSeq(sorted, 1, at - 1) \o <<d>> \o SubSeq(sorted, at, Len(sorted))

RECURSIVE SortFrom(_, _, _)
SortFrom(sorted, diagnostics, n) ==
    IF n > Len(diagnostics) THEN sorted
    ELSE SortFrom(InsertSorted(sorted, diagnostics[n]), diagnostics, n + 1)

\* the diagnostics left in the order the checkers pushed them
UnsortedDiagnostics(diagnostics) == diagnostics

\* `diagnostics.sort_by(...)`: a stable sort
SortDiagnostics(diagnostics) == SortFrom(<<>>, diagnostics, 1)

\* the same_bucket of dedup_by
SameBucket(a, b) ==
    /\ a.file = b.file
    /\ a.line = b.line
    /\ a.category = b.category
    /\ a.message = b.message

\* the sorted diagnostics returned as they are
KeepDuplicates(diagnostics) == diagnostics

RECURSIVE DedupFrom(_, _, _)
DedupFrom(kept, diagnostics, n) ==
    IF n > Len(diagnostics) THEN kept
    ELSE DedupFrom(IF kept # <<>> /\ SameBucket(diagnostics[n], kept[Len(kept)])
                   THEN kept
                   ELSE Append(kept, diagnostics[n]),
                   diagnostics, n + 1)

\* `diagnostics.dedup_by(...)`: of consecutive equal findings the first stays
DedupDiagnostics(diagnostics) == DedupFrom(<<>>, diagnostics, 1)

\* `diagnostics.retain(|d| !is_suppressed(...))`
RetainUnsuppressed(files, diagnostics) ==
    LET Kept(d) == ~is_suppressed(files, d.file, d.line, d.category) IN
    SelectSeq(diagnostics, Kept)

\* what run returns for the findings the checkers pushed
FinishRun(files, diagnostics) ==
    DedupDiagnostics(SortDiagnostics(RetainUnsuppressed(files, diagnostics)))

----------------------------------------------------------------------------
(* Bounded inputs                                                           *)

\* the longest raw identifier handed to normalize
MaxLen == 4

\* the characters raw identifiers are drawn from: lowercase, uppercase, a
\* digit, the three delimiters and a non-ASCII uppercase letter
Alphabet == {"a", "b", "A", "B", "2", "_", "-", " ", "É"}

RECURSIVE StringsUpTo(_, _)
StringsUpTo(alpha, n) ==
    IF n = 0 THEN {<<>>}
    ELSE LET shorter == StringsUpTo(alpha, n - 1) IN
         shorter \cup {Append(s, c) : s \in {t \in shorter : Len(t) = n - 1}, c \in alpha}

\* the identifiers of the unit tests of normalize
HTTPRequest == <<"H","T","T","P","R","e","q","u","e","s","t">>

RequestAPI == <<"r","e","q","u","e","s","t","A","P","I">>

API2 == <<"A","P","I","2">>

TestInputs == {HTTPRequest, RequestAPI, API2}

Inputs == StringsUpTo(Alphabet, MaxLen) \cup TestInputs

\* the engine variables of a run that only normalizes
NoEngine ==
    /\ ctx_files = <<>>
    /\ config = <<>>
    /\ naming = <<>>
    /\ drift = <<>>
    /\ output = <<>>
    /\ previous = <<>>

----------------------------------------------------------------------------
(* The normalizer run: normalize(input), then normalize of the result       *)

InitNorm ==
    /\ pc = "raw"
    /\ input \in Inputs
    /\ key = <<>>
    /\ key2 = <<>>
    /\ words = <<>>
    /\ rendered = <<>>
    /\ NoEngine

Normalize ==
    /\ pc = "raw"
    /\ key' = normalize(input)
    /\ pc' = "normalized"
    /\ UNCHANGED <<input, key2, words, rendered>>
    /\ UNCHANGED engineVars

NormalizeAgain ==
    /\ pc = "normalized"
    /\ key2' = normalize(key)
    /\ pc' = "renormalized"
    /\ UNCHANGED <<input, key, words, rendered>>
    /\ UNCHANGED engineVars

NextNorm == Normalize \/ NormalizeAgain

SpecNorm == InitNorm /\ [][NextNorm]_vars

----------------------------------------------------------------------------
(* The rendering run: one word sequence written in the five conventions,    *)
(* each rendering normalized                                                *)

\* the most words of one identifier
MaxWords == 3

\* the longest word of an identifier
MaxWordLen == 2

\* the letters words are made of
WordLetters == {"a", "b"}

Words == StringsUpTo(WordLetters, MaxWordLen) \ {<<>>}

WordSeqs == StringsUpTo(Words, MaxWords) \ {<<>>}

\* the word with its first letter in uppercase
Capitalize(w) == <<UpperAscii[IndexOf(LowerAscii, w[1])]>> \o Tail(w)

RenderSnake(ws) == Join(ws, <<"_">>)

RenderKebab(ws) == Join(ws, <<"-">>)

RenderSpaced(ws) == Join(ws, <<" ">>)

RenderCamel(ws) ==
    Join(<<ws[1]>> \o [k \in 1..(Len(ws) - 1) |-> Capitalize(ws[k + 1])], <<>>)

RenderPascal(ws) == Join([k \in 1..Len(ws) |-> Capitalize(ws[k])], <<>>)

InitWords ==
    /\ pc = "words"
    /\ words \in WordSeqs
    /\ rendered = <<>>
    /\ input = <<>>
    /\ key = <<>>
    /\ key2 = <<>>
    /\ NoEngine

NormalizeRenderings ==
    /\ pc = "words"
    /\ rendered' = [snake  |-> normalize(RenderSnake(words)),
                    kebab  |-> normalize(RenderKebab(words)),
                    spaced |-> normalize(RenderSpaced(words)),
                    camel  |-> normalize(RenderCamel(words)),
                    pascal |-> normalize(RenderPascal(words))]
    /\ pc' = "rendered"
    /\ UNCHANGED <<input, key, key2, words>>
    /\ UNCHANGED engineVars

NextWords == NormalizeRenderings

SpecWords == InitWords /\ [][NextWords]_vars

----------------------------------------------------------------------------
(* The engine run: one corpus, the two checkers, then retain, sort, dedup;  *)
(* the run can be repeated on the unchanged corpus                          *)

\* the paths of the documents of the corpus, relative to the project root,
\* in the order scanner::scan returns them
DocPaths == <<<<"a", ".", "m", "d">>, <<"b", ".", "m", "d">>>>

\* the most sections of one document
MaxSections == 1

\* how often the run is repeated on a corpus
MaxReruns == 1

\* the section titles of the corpus: three spellings of one key, two of
\* them equal but for case, and a near miss of that key
Titles ==
    {<<"d","b","_","i","d">>, <<"d","b","I","d">>, <<"D","b","I","d">>,
     <<"d","b","_","i","d","s">>}

\* a table with two columns, its second row short of the second column
StatusTable ==
    [headers |-> << <<"d","b","I","d">>, <<"I","d">> >>,
     rows |-> << << <<"x">>, <<"p">> >>, << <<"y">> >> >>]

\* a table with the same two columns by normalized key, other spellings
\* of the headers and other values
StateTable ==
    [headers |-> << <<"d","b","_","i","d">>, <<"I","D">> >>,
     rows |-> << << <<"x">>, <<" ","q">> >> >>]

\* the tables one document can hold, in the order of the file
TableLists == {<<>>, <<StatusTable>>, <<StateTable>>, <<StatusTable, StateTable>>}

\* a document as parse_file returns it: the k-th heading on line 2k - 1, the
\* tables after the last heading, five lines apart, their parent the heading
\* before them
Document(path, titles, shapes) ==
    [path |-> path,
     sections |-> [k \in 1..Len(titles) |->
                      [title |-> titles[k], line |-> 2 * k - 1]],
     tables |-> [k \in 1..Len(shapes) |->
                    [headers |-> shapes[k].headers,
                     rows |-> shapes[k].rows,
                     line |-> 2 * Len(titles) + 5 * k - 4,
                     parent_section |->
                         IF titles = <<>> THEN <<>>
                         ELSE <<titles[Len(titles)]>>]],
     suppress_comments |-> <<>>,
     total_lines |-> 2 * Len(titles) + 5 * Len(shapes)]

\* the documents a path can hold
DocumentsAt(path) ==
    {Document(path, titles, shapes) :
        titles \in StringsUpTo(Titles, MaxSections), shapes \in TableLists}

Corpora ==
    {c \in [1..Len(DocPaths) -> UNION {DocumentsAt(DocPaths[d]) : d \in 1..Len(DocPaths)}] :
        \A d \in 1..Len(DocPaths) : c[d].path = DocPaths[d]}

\* Config::default(): no scope pattern, no historical pattern
DefaultConfig ==
    [naming_scope |-> <<>>, drift_scope |-> <<>>, historical_files |-> <<>>]

Init ==
    /\ pc = "parsed"
    /\ ctx_files \in Corpora
    /\ config = DefaultConfig
    /\ naming = <<>>
    /\ drift = <<>>
    /\ output = <<>>
    /\ previous = <<>>
    /\ input = <<>>
    /\ key = <<>>
    /\ key2 = <<>>
    /\ words = <<>>
    /\ rendered = <<>>

\* the naming checker runs; the HashMap of groups is iterated in some order
RunNaming ==
    /\ pc = "parsed"
    /\ LET groups == BuildGroups(CollectOccurrences(ctx_files,
                          InScope(ctx_files, config.naming_scope)))
       IN \E order \in Orders(DOMAIN groups) : naming' = NamingCheck(groups, order)
    /\ pc' = "named"
    /\ UNCHANGED <<ctx_files, config, drift, output, previous>>
    /\ UNCHANGED normVars

\* the enum-drift checker runs
RunEnumDrift ==
    /\ pc = "named"
    /\ drift' = EnumDriftCheck(ctx_files, InScope(ctx_files, config.drift_scope),
                               HistoricalIndices(ctx_files, config.historical_files))
    /\ pc' = "drifted"
    /\ UNCHANGED <<ctx_files, config, naming, output, previous>>
    /\ UNCHANGED normVars

\* run drops the suppressed findings, sorts, dedups and returns
Finish ==
    /\ pc = "drifted"
    /\ output' = FinishRun(ctx_files, naming \o drift)
    /\ pc' = "done"
    /\ UNCHANGED <<ctx_files, config, naming, drift, previous>>
    /\ UNCHANGED normVars

\* the pipeline is started again on the unchanged corpus
RunAgain ==
    /\ pc = "done"
    /\ Len(previous) < MaxReruns
    /\ previous' = Append(previous, output)
    /\ naming' = <<>>
    /\ drift' = <<>>
    /\ output' = <<>>
    /\ pc' = "parsed"
    /\ UNCHANGED <<ctx_files, config>>
    /\ UNCHANGED normVars

Next == RunNaming \/ RunEnumDrift \/ Finish

Spec == Init /\ [][Next]_vars

NextTwice == RunNaming \/ RunEnumDrift \/ Finish \/ RunAgain

\* the engine run, repeated
SpecTwice == Init /\ [][NextTwice]_vars

----------------------------------------------------------------------------
(* Claims about normalize                                                   *)

UpperRuns(s) ==
    {<<i, UpperRunEnd(s, i)>> : i \in {k \in 1..Len(s) :
        IsUppercase(s[k]) /\ (k = 1 \/ ~IsUppercase(s[k - 1]))}}

\* the tokens the claim gives an identifier around the run r of 2+ uppercase
\* letters: the tokens before the run, the acronym, the tokens after it
AcronymTokens(s, r) ==
    LET i == r[1]
        j == r[2]
        before == NormalizeParts(SubSeq(s, 1, i - 1))
        after == SubSeq(s, j, Len(s))
    IN IF j <= Len(s) /\ IsLowercase(s[j])
       THEN before \o <<ToLowercase(SubSeq(s, i, j - 2))>>
                   \o NormalizeParts(<<s[j - 1]>> \o after)
       ELSE before \o <<ToLowercase(SubSeq(s, i, j - 1))>> \o NormalizeParts(after)

\* C4: a run of 2 or more uppercase letters is an acronym token: followed by
\* a lowercase letter, its last letter starts the next token and the rest of
\* the run is a token of its own; otherwise the whole run is one token and
\* what follows starts a fresh token. normalize("HTTPRequest") =
\* "http_request", normalize("requestAPI") = "request_api", normalize("API2")
\* = "api_2", normalize("") = "".
C4_Acronym ==
    pc = "normalized" =>
        /\ \A r \in UpperRuns(input) :
              r[2] - r[1] >= 2 => key = Join(AcronymTokens(input, r), <<"_">>)
        /\ input = HTTPRequest =>
              key = <<"h","t","t","p","_","r","e","q","u","e","s","t">>
        /\ input = RequestAPI =>
              key = <<"r","e","q","u","e","s","t","_","a","p","i">>
        /\ input = API2 => key = <<"a","p","i","_","2">>
        /\ input = <<>> => key = <<>>

\* normalize("HTTPRequest") returned "http_request"
C4_Witness ==
    /\ pc = "normalized"
    /\ input = HTTPRequest
    /\ key = <<"h","t","t","p","_","r","e","q","u","e","s","t">>

\* no separator at either end of k and no two separators side by side
WellFormedKey(k) ==
    /\ k # <<>> => k[1] # "_" /\ k[Len(k)] # "_"
    /\ \A n \in 1..(Len(k) - 1) : ~(k[n] = "_" /\ k[n + 1] = "_")

\* C5: normalize returns for every input, and the key never begins or ends
\* with '_' and never holds two adjacent '_'; an empty or delimiter-only
\* input gives the empty key.
C5_WellFormed ==
    pc = "normalized" =>
        /\ WellFormedKey(key)
        /\ (\A n \in 1..Len(input) : IsDelimiter(input[n])) => key = <<>>

\* an input with leading, repeated and trailing delimiters was normalized
C5_Witness ==
    /\ pc = "normalized"
    /\ input = <<"_", "a", "-", " ">>
    /\ key = <<"a">>

\* C6: every token of the key normalize returns is lowercased: the key holds
\* no uppercase letter, for inputs with non-ASCII uppercase letters too.
C6_NoUppercase ==
    pc = "normalized" => \A n \in 1..Len(key) : ~IsUppercase(key[n])

\* no two neighbouring words are both a single letter
NoAdjacentSingleLetters(ws) ==
    \A k \in 1..(Len(ws) - 1) : ~(Len(ws[k]) = 1 /\ Len(ws[k + 1]) = 1)

\* the five renderings all normalized to the words joined by '_'
AllRenderingsAgree ==
    /\ rendered.snake = RenderSnake(words)
    /\ rendered.kebab = RenderSnake(words)
    /\ rendered.spaced = RenderSnake(words)
    /\ rendered.camel = RenderSnake(words)
    /\ rendered.pascal = RenderSnake(words)

\* C7 as stated: for every non-empty sequence of words of one or more
\* lowercase ASCII letters, the snake_case, kebab-case, space-separated,
\* camelCase and PascalCase renderings normalize to the words joined by '_'.
C7_Original == pc = "rendered" => AllRenderingsAgree

\* C7 amended: the same, for word sequences in which no two neighbouring
\* words are both a single letter.
C7_Renderings ==
    pc = "rendered" /\ NoAdjacentSingleLetters(words) => AllRenderingsAgree

\* three words, one of them a single letter, rendered and normalized
C7_Witness ==
    /\ pc = "rendered"
    /\ words = <<<<"a", "b">>, <<"a">>, <<"b", "a">>>>
    /\ rendered.camel = <<"a","b","_","a","_","b","a">>
    /\ rendered.pascal = rendered.camel

----------------------------------------------------------------------------
(* Claims about the engine run                                              *)

\* the groups of the naming checker on the corpus of the run
Groups ==
    BuildGroups(CollectOccurrences(ctx_files,
                    InScope(ctx_files, config.naming_scope)))

\* the naming checker has returned in this run
NamingReturned == pc \in {"named", "drifted", "done"}

\* the enum-drift checker has returned in this run
DriftReturned == pc \in {"drifted", "done"}

\* the message an exact-variant warning about the group carries
MessageOf(group) == VariantMessage(SortedStrings(UniqueOriginals(group)))

\* the findings of the naming checker that are warnings about the group
WarningsOf(group) ==
    {n \in 1..Len(naming) :
        naming[n].severity = Warning /\ naming[n].message = MessageOf(group)}

\* the messages of the near-miss infos that name the representative spelling
\* of the group under key g beside that of another group
InfoMessagesOf(groups, g) ==
    UNION {{SimilarMessage(groups[g][1].original, groups[h][1].original,
                           jaro_winkler(g, h)),
            SimilarMessage(groups[h][1].original, groups[g][1].original,
                           jaro_winkler(h, g))} : h \in DOMAIN groups \ {g}}

\* the findings of the naming checker that are near-miss infos about the
\* group under key g
InfosOf(groups, g) ==
    LET messages == InfoMessagesOf(groups, g)
    IN {n \in 1..Len(naming) :
          naming[n].severity = Info /\ naming[n].message \in messages}

\* C1: running the pipeline twice on the same parsed corpus yields the
\* identical findings sequence, whatever order the cluster map is iterated in.
C1_Deterministic ==
    pc = "done" /\ previous # <<>> => output = previous[Len(previous)]

\* the messages of the exact-variant warnings about the clusters with
\* occurrences in 2 or more documents
TwoDocumentWarnings ==
    LET groups == Groups
    IN {MessageOf(groups[g]) :
          g \in {k \in DOMAIN groups : Cardinality(GroupFiles(groups[k])) >= 2}}

\* the messages of the near-miss infos about the pairs of clusters whose
\* occurrences do not lie in one single document
TwoDocumentInfos ==
    LET groups == Groups
        pairs == {p \in (DOMAIN groups) \X (DOMAIN groups) :
                    /\ p[1] # p[2]
                    /\ Cardinality(GroupFiles(groups[p[1]])
                                     \cup GroupFiles(groups[p[2]])) >= 2}
    IN {SimilarMessage(groups[p[1]][1].original, groups[p[2]][1].original,
                       jaro_winkler(p[1], p[2])) : p \in pairs}

\* the drift findings, as <<file, line, message>>, of the columns of table
\* ta of file fa against the columns with the same normalized header of table
\* tb of file fb
DriftsBetween(fa, ta, fb, tb) ==
    {<<fa, ta.line,
       DriftMessage(ta.headers[p[1]],
                    CollectValues(ta, p[1]) \ CollectValues(tb, p[2]),
                    ctx_files[fb].path)>> :
        p \in {q \in (1..Len(ta.headers)) \X (1..Len(tb.headers)) :
                 normalize(ta.headers[q[1]]) = normalize(tb.headers[q[2]])}}

\* the drift findings of the pairs of tables of two different documents
TwoDocumentDrifts ==
    LET docs == 1..Len(ctx_files)
        Tables(f) == Range(ctx_files[f].tables)
    IN UNION {UNION {UNION {UNION {
           DriftsBetween(fa, ta, fb, tb) :
             tb \in Tables(fb)} : fb \in docs \ {fa}} :
             ta \in Tables(fa)} : fa \in docs}

\* C2: every finding of the two checkers involves at least two documents: a
\* warning of the naming checker is about a cluster with occurrences in 2 or
\* more documents, an info about a pair of clusters whose occurrences do not
\* lie in one single document, a drift warning about a pair of tables of two
\* different documents.
C2_TwoDocuments ==
    /\ NamingReturned =>
         LET warnings == TwoDocumentWarnings
             infos == TwoDocumentInfos
         IN \A n \in 1..Len(naming) :
              IF naming[n].severity = Warning
              THEN naming[n].message \in warnings
              ELSE naming[n].message \in infos
    /\ DriftReturned =>
         LET drifts == TwoDocumentDrifts
         IN \A n \in 1..Len(drift) :
              <<drift[n].file, drift[n].line, drift[n].message>> \in drifts

\* both checkers returned findings on a corpus in which one document holds
\* two tables that share their headers and a cluster of its own
C2_Witness ==
    /\ DriftReturned
    /\ Len(ctx_files[1].tables) = 2
    /\ ctx_files[2].tables # <<>>
    /\ drift # <<>>
    /\ \E n \in 1..Len(naming) : naming[n].severity = Warning
    /\ \E n \in 1..Len(naming) : naming[n].severity = Info

\* the three conditions of an exact-variant inconsistency
Inconsistent(group) ==
    /\ Cardinality(UniqueOriginals(group)) >= 2
    /\ Cardinality(Lowered(UniqueOriginals(group))) >= 2
    /\ Cardinality(GroupFiles(group)) >= 2

\* C8: a cluster with 2 or more spellings that do not collapse under
\* lowercasing, in 2 or more documents, produces exactly one warning per
\* occurrence, at its document and line, all with the message that names
\* the spellings in sorted order, and a suggestion; any other cluster
\* produces no warning.
C8_WarningPerOccurrence ==
    NamingReturned =>
      LET groups == Groups
      IN /\ \A g \in DOMAIN groups :
              LET group == groups[g]
                  warnings == WarningsOf(group)
              IN IF Inconsistent(group)
                 THEN /\ Cardinality(warnings) = Len(group)
                      /\ \A k \in 1..Len(group) :
                           Cardinality({n \in warnings :
                               /\ naming[n].file = group[k].file_idx
                               /\ naming[n].line = group[k].line})
                             = Cardinality({j \in 1..Len(group) :
                                 /\ group[j].file_idx = group[k].file_idx
                                 /\ group[j].line = group[k].line})
                      /\ \A n \in warnings : naming[n].suggestion # <<>>
                 ELSE warnings = {}
         /\ LET messages == {MessageOf(groups[g]) : g \in DOMAIN groups}
            IN \A n \in 1..Len(naming) :
                 naming[n].severity = Warning => naming[n].message \in messages

\* an inconsistent cluster of three or more occurrences, two of them in one
\* document, got one warning for each
C8_Witness ==
    /\ pc = "named"
    /\ LET groups == Groups
       IN \E g \in DOMAIN groups :
            /\ Inconsistent(groups[g])
            /\ Len(groups[g]) >= 3
            /\ Cardinality(WarningsOf(groups[g])) = Len(groups[g])

\* the spellings of the group differ, and only by case
CaseOnlyGroup(group) ==
    /\ Cardinality(UniqueOriginals(group)) >= 2
    /\ Cardinality(Lowered(UniqueOriginals(group))) = 1

\* C9: a cluster whose distinct spellings are all equal after lowercasing
\* produces no exact-variant warning, however many documents it spans.
C9_CaseOnly ==
    NamingReturned =>
      LET groups == Groups
      IN \A g \in DOMAIN groups :
           CaseOnlyGroup(groups[g]) => WarningsOf(groups[g]) = {}

\* a case-only cluster in two documents went through the checker
C9_Witness ==
    /\ pc = "named"
    /\ LET groups == Groups
       IN \E g \in DOMAIN groups :
            /\ CaseOnlyGroup(groups[g])
            /\ Cardinality(GroupFiles(groups[g])) = 2

\* C10 as stated: a cluster whose occurrences all come from one document
\* produces zero findings, whatever the spellings.
C10_Original ==
    NamingReturned =>
      LET groups == Groups
      IN \A g \in DOMAIN groups :
           Cardinality(GroupFiles(groups[g])) = 1 =>
             WarningsOf(groups[g]) = {} /\ InfosOf(groups, g) = {}

\* C10 amended: a cluster whose occurrences all come from one document
\* produces zero exact-variant warnings, whatever the spellings.
C10_SameDocument ==
    NamingReturned =>
      LET groups == Groups
      IN \A g \in DOMAIN groups :
           Cardinality(GroupFiles(groups[g])) = 1 => WarningsOf(groups[g]) = {}

\* two spellings that differ by more than case, both only in one document,
\* went through the checker
C10_Witness ==
    /\ pc = "named"
    /\ LET groups == Groups
       IN \E g \in DOMAIN groups :
            /\ Cardinality(GroupFiles(groups[g])) = 1
            /\ Cardinality(Lowered(UniqueOriginals(groups[g]))) >= 2

----------------------------------------------------------------------------
(* The near-miss run: NamingInconsistencyChecker::check on headings that    *)
(* are close to one another                                                 *)

\* the most headings of the first document
MaxNearSections == 2

\* a key and its plural
DbId == <<"d","b","_","i","d">>
DbIds == <<"d","b","_","i","d","s">>

\* a date, and the same text with a full stop after it
DateTitle == <<"D","e","c"," ","5",","," ","2","0","2","5">>
DatedTitle == <<"D","e","c"," ","5",","," ","2","0","2","5",".">>

\* an ISO date, and the same text with a full stop after it
IsoTitle == <<"2","0","2","5","-","1","0","-","2","7">>
IsoDatedTitle == <<"2","0","2","5","-","1","0","-","2","7",".">>

\* two numbered headings that differ in the number and in the space after it
ThirdStep == <<"3","."," ","V","a","l","i","d","a","t","i","o","n"," ","C","h","e","c","k","l","i","s","t">>
FourthStep == <<"4",".","V","a","l","i","d","a","t","i","o","n"," ","C","h","e","c","k","l","i","s","t">>

\* a one-word key and its plural
NameTitle == <<"n","a","m","e">>
NamesTitle == <<"n","a","m","e","s">>

\* the headings of the near-miss corpus
NearTitles == {DbId, DbIds, NameTitle, NamesTitle, DateTitle, DatedTitle}

\* the headings of the corpus of dates and numbered headings
SkipTitles ==
    {DateTitle, DatedTitle, IsoTitle, IsoDatedTitle, ThirdStep, FourthStep}

\* the corpora with headings out of the pool: a.md with up to
\* MaxNearSections headings, b.md with one heading or none, no tables
HeadingCorpora(pool) ==
    {<<Document(DocPaths[1], titles, <<>>), Document(DocPaths[2], other, <<>>)>> :
        titles \in StringsUpTo(pool, MaxNearSections),
        other \in {<<>>} \cup {<<t>> : t \in pool}}

\* the state a run of the naming checker starts in, on one of the corpora
InitHeadings(corpora) ==
    /\ pc = "parsed"
    /\ ctx_files \in corpora
    /\ config = DefaultConfig
    /\ naming = <<>>
    /\ drift = <<>>
    /\ output = <<>>
    /\ previous = <<>>
    /\ input = <<>>
    /\ key = <<>>
    /\ key2 = <<>>
    /\ words = <<>>
    /\ rendered = <<>>

InitNear == InitHeadings(HeadingCorpora(NearTitles))

NextNear == RunNaming

SpecNear == InitNear /\ [][NextNear]_vars

InitSkip == InitHeadings(HeadingCorpora(SkipTitles))

NextSkip == RunNaming

SpecSkip == InitSkip /\ [][NextSkip]_vars

----------------------------------------------------------------------------
(* Claims about the near-miss detector                                      *)

\* the number of normalized segments of a key
SegmentCount(k) == 1 + Cardinality({n \in 1..Len(k) : k[n] = "_"})

\* the representative spelling of a group: its first collected occurrence
Representative(group) == group[1].original

\* the similarity of the two keys is at or above the threshold
Close(g, h) ==
    /\ AtLeastPercent(jaro_winkler(g, h), NearMissThreshold)
    /\ AtLeastPercent(jaro_winkler(h, g), NearMissThreshold)

\* one of the two representative spellings is a date or a time
DateSuppressed(groups, g, h) ==
    \/ DatePatternMatches(Representative(groups[g]))
    \/ DatePatternMatches(Representative(groups[h]))

\* the representative spellings are equal, ignoring case, once a leading
\* ordinal prefix is stripped from both
PrefixSuppressed(groups, g, h) ==
    EqIgnoreAsciiCase(strip_numbered_prefix(Representative(groups[g])),
                      strip_numbered_prefix(Representative(groups[h])))

\* the representative spellings are equal, ignoring case, once the digits
\* are removed from both
DigitsSuppressed(groups, g, h) ==
    EqIgnoreAsciiCase(WithoutDigits(Representative(groups[g])),
                      WithoutDigits(Representative(groups[h])))

\* one of the two representative spellings is a `key: value` line
KeyValueSuppressed(groups, g, h) ==
    \/ YamlFrontmatterMatches(Representative(groups[g]))
    \/ YamlFrontmatterMatches(Representative(groups[h]))

\* the two groups occur in the same set of documents
DocumentSetSuppressed(groups, g, h) ==
    GroupFiles(groups[g]) = GroupFiles(groups[h])

\* one of the five suppression filters applies to the pair
Suppressed(groups, g, h) ==
    \/ DateSuppressed(groups, g, h)
    \/ PrefixSuppressed(groups, g, h)
    \/ DigitsSuppressed(groups, g, h)
    \/ KeyValueSuppressed(groups, g, h)
    \/ DocumentSetSuppressed(groups, g, h)

\* the two messages an info about the pair can carry, one for each order
PairMessages(groups, g, h) ==
    {SimilarMessage(Representative(groups[g]), Representative(groups[h]),
                    jaro_winkler(g, h)),
     SimilarMessage(Representative(groups[h]), Representative(groups[g]),
                    jaro_winkler(h, g))}

\* the infos of the naming checker about the pair
PairInfos(groups, g, h) ==
    LET messages == PairMessages(groups, g, h)
    IN {n \in 1..Len(naming) :
          naming[n].severity = Info /\ naming[n].message \in messages}

\* the pair got one info for each occurrence of its two groups, at the
\* place of the occurrence, all with one message
InfoPerOccurrence(groups, g, h) ==
    LET infos == PairInfos(groups, g, h)
        both == groups[g] \o groups[h]
    IN /\ Cardinality(infos) = Len(both)
       /\ \A m \in infos : \A n \in infos : naming[m].message = naming[n].message
       /\ \A k \in 1..Len(both) :
            Cardinality({n \in infos :
                /\ naming[n].file = both[k].file_idx
                /\ naming[n].line = both[k].line})
              = Cardinality({j \in 1..Len(both) :
                  /\ both[j].file_idx = both[k].file_idx
                  /\ both[j].line = both[k].line})

DateLike(s) == IsIsoDate(s) \/ IsMonthDate(s)

----------------------------------------------------------------------------
(* The drift run: EnumDriftChecker::check on three documents               *)

\* the most tables of one document
MaxTables == 1

\* the paths of the drift corpus, sorted: two of them end in one file name
DriftPaths == <<<<"a",".","m","d">>, <<"b",".","m","d">>, <<"x","/","b",".","m","d">>>>

\* the heading the tables of the first document can stand under
FirstParents == {<<>>, <<<<"S","t","a","t","u","s">>>>}

\* the headings of the second document: a title close to that of the first,
\* and another
SecondParents == {<<>>, <<<<"S","t","a","t","u","s","e","s">>>>, <<<<"U","s","e","r","s">>>>}

\* a value of exactly TruncateAt characters
ExactValue == [k \in 1..TruncateAt |-> "b"]

\* a value of one character more
LongValue == [k \in 1..(TruncateAt + 1) |-> "a"]

\* two columns, the second row short of the second column
OwnerTable ==
    [headers |-> <<<<"S","t","a","t","u","s">>, <<"O","w","n","e","r">>>>,
     rows |-> << <<<<"p","e","n","d","i","n","g">>>>, <<<<"a","c","t","i","v","e">>, <<"x">>>> >>]

\* the same two columns by normalized key, other values in both, the second
\* row longer than the header list
ArchiveTable ==
    [headers |-> <<<<"s","t","a","t","u","s">>, <<"o","w","n","e","r">>>>,
     rows |-> << <<<<" ","a","c","t","i","v","e">>, <<"x">>>>, <<<<"a","r","c","h","i","v","e","d">>, <<"y">>, <<"z">>>> >>]

\* one column of the others and one of its own, long values, a short row
NameTable ==
    [headers |-> <<<<"S","t","a","t","u","s">>, <<"N","a","m","e">>>>,
     rows |-> << <<ExactValue>>, <<LongValue, <<"n">>>> >>]

\* two header labels of one normalized key
TwiceTable ==
    [headers |-> <<<<"S","t","a","t","u","s">>, <<"s","t","a","t","u","s">>>>,
     rows |-> << <<<<"a","c","t","i","v","e">>, <<"p","e","n","d","i","n","g">>>> >>]

\* the tables of the drift corpus
DriftTables == {OwnerTable, ArchiveTable, NameTable, TwiceTable}

\* the documents a path of the drift corpus can hold: one heading or none,
\* then up to MaxTables tables
DriftDocumentsAt(path, parents, tables) ==
    {Document(path, parent, shapes) :
        parent \in parents, shapes \in StringsUpTo(tables, MaxTables)}

\* the tables of the third document
ThirdTables == {ArchiveTable, NameTable}

\* the third document has no heading
DriftCorpora ==
    {<<a, b, c>> : a \in DriftDocumentsAt(DriftPaths[1], FirstParents, DriftTables),
                   b \in DriftDocumentsAt(DriftPaths[2], SecondParents, DriftTables),
                   c \in DriftDocumentsAt(DriftPaths[3], {<<>>}, ThirdTables)}

InitDrift ==
    /\ pc = "parsed"
    /\ ctx_files \in DriftCorpora
    /\ config = DefaultConfig
    /\ naming = <<>>
    /\ drift = <<>>
    /\ output = <<>>
    /\ previous = <<>>
    /\ input = <<>>
    /\ key = <<>>
    /\ key2 = <<>>
    /\ words = <<>>
    /\ rendered = <<>>

\* EnumDriftChecker::check called on the context, as its tests call it
DriftAlone ==
    /\ pc = "parsed"
    /\ drift' = EnumDriftCheck(ctx_files, InScope(ctx_files, config.drift_scope),
                               HistoricalIndices(ctx_files, config.historical_files))
    /\ pc' = "drifted"
    /\ UNCHANGED <<ctx_files, config, naming, output, previous>>
    /\ UNCHANGED normVars

NextDrift == DriftAlone

SpecDrift == InitDrift /\ [][NextDrift]_vars

----------------------------------------------------------------------------
(* Claims about the table matcher and the drift analyzer                    *)

\* the tables of the corpus, each with the index of its document and the
\* normalized keys of its header labels
CorpusTables ==
    UNION {{[file_idx |-> f, table |-> ctx_files[f].tables[t],
             normalized_headers |->
                 NormalizedHeaders(ctx_files[f].tables[t].headers, 1, <<>>)] :
               t \in 1..Len(ctx_files[f].tables)} : f \in 1..Len(ctx_files)}

\* the normalized keys of the header labels of a table
HeaderKeys(x) == Range(x.normalized_headers)

\* the keys two tables share
SharedKeys(x, y) == HeaderKeys(x) \cap HeaderKeys(y)

\* both tables stand under a section title and the titles are similar
TitlesAgree(ta, tb) ==
    /\ ta.parent_section # <<>>
    /\ tb.parent_section # <<>>
    /\ AtLeastPercent(jaro_winkler(ta.parent_section[1], tb.parent_section[1]),
                      SectionThreshold)

EndsWith(s, t) ==
    Len(t) <= Len(s) /\ SubSeq(s, Len(s) - Len(t) + 1, Len(s)) = t

\* the finding stands at the table x and names the document of y as counterpart
FindingOfPair(d, x, y) ==
    /\ d.file = x.file_idx
    /\ d.line = x.table.line
    /\ EndsWith(d.message, TxtNotFoundIn \o FileName(ctx_files[y.file_idx].path))

\* the first column of the table under the key
FirstColumn(x, k) ==
    CHOOSE c \in 1..Len(x.normalized_headers) :
        /\ x.normalized_headers[c] = k
        /\ \A e \in 1..(c - 1) : x.normalized_headers[e] # k

\* the values of the first column under the key
ValuesUnder(x, k) == CollectValues(x.table, FirstColumn(x, k))

\* the drift finding at x about the values under the key that y lacks
DriftFinding(x, y, k) ==
    Diagnostic(x.file_idx, x.table.line, Warning, EnumDrift,
               DriftMessage(x.table.headers[FirstColumn(x, k)],
                            ValuesUnder(x, k) \ ValuesUnder(y, k),
                            ctx_files[y.file_idx].path),
               TxtAlign)

\* exactly one shared key, and section titles absent on a side or dissimilar
OneHeaderApart(x, y) ==
    Cardinality(SharedKeys(x, y)) = 1 /\ ~TitlesAgree(x.table, y.table)

\* C14: two tables of different documents that share exactly one header label
\* by normalized key, their section titles absent on a side or dissimilar,
\* never match, so every drift finding belongs to a pair that is not such a
\* pair; two tables that share two or more keys always match, so every value
\* under a shared key that the other table lacks is reported
C14_MatchBoundary ==
    (pc = "drifted") =>
      LET tables == CorpusTables IN
      /\ \A n \in 1..Len(drift) :
           \E x \in tables : \E y \in tables :
             /\ x.file_idx # y.file_idx
             /\ FindingOfPair(drift[n], x, y)
             /\ ~OneHeaderApart(x, y)
      /\ \A x \in tables : \A y \in tables :
           (x.file_idx # y.file_idx /\ Cardinality(SharedKeys(x, y)) >= 2)
             => \A k \in SharedKeys(x, y) :
                  (ValuesUnder(x, k) \ ValuesUnder(y, k) # {})
                    => \E n \in 1..Len(drift) : drift[n] = DriftFinding(x, y, k)

\* the table references the drift checker compares in this run
DriftRefs ==
    TableRefs(ctx_files, InScope(ctx_files, config.drift_scope),
              HistoricalIndices(ctx_files, config.historical_files))

\* the places of the finding in the findings of the drift checker
PlacesOf(d) == {n \in 1..Len(drift) : drift[n] = d}

\* x comes before y in the pair loop, they are of different documents and match
MatchedPair(refs, i, j) ==
    /\ i < j
    /\ refs[i].file_idx # refs[j].file_idx
    /\ tables_match(refs[i], refs[j])

\* the values under the key differ on both sides
DiffersBothSides(x, y, k) ==
    /\ ValuesUnder(x, k) \ ValuesUnder(y, k) # {}
    /\ ValuesUnder(y, k) \ ValuesUnder(x, k) # {}

\* C15: for a matched pair of tables and a column shared by normalized key
\* whose values differ on both sides there are exactly two warnings for the
\* column: one at the first table with the values only it has, naming the
\* document of the second, and the mirrored one at the second table
C15_TwoFindings ==
    (pc = "drifted") =>
      LET refs == DriftRefs IN
      \A i \in 1..Len(refs) : \A j \in 1..Len(refs) :
        MatchedPair(refs, i, j) =>
          \A k \in SharedKeys(refs[i], refs[j]) :
            DiffersBothSides(refs[i], refs[j], k) =>
              /\ Cardinality(PlacesOf(DriftFinding(refs[i], refs[j], k))) = 1
              /\ Cardinality(PlacesOf(DriftFinding(refs[j], refs[i], k))) = 1
              /\ DriftFinding(refs[i], refs[j], k) # DriftFinding(refs[j], refs[i], k)

\* a matched pair with a column that has {active, pending} on one side and
\* {active, archived} on the other has been compared
C15_Witness ==
    /\ pc = "drifted"
    /\ LET refs == DriftRefs IN
       \E i \in 1..Len(refs) : \E j \in 1..Len(refs) :
         /\ MatchedPair(refs, i, j)
         /\ \E k \in SharedKeys(refs[i], refs[j]) :
              /\ DiffersBothSides(refs[i], refs[j], k)
              /\ Cardinality(ValuesUnder(refs[i], k)) = 2
              /\ Cardinality(ValuesUnder(refs[j], k)) = 2
              /\ Cardinality(ValuesUnder(refs[i], k)
                               \cap ValuesUnder(refs[j], k)) = 1

\* C16: the findings of one run of the enum-drift checker never hold two
\* findings with the same document, line and message, however many tables
\* match one another
C16_NoDuplicates ==
    (pc = "drifted") =>
      \A m \in 1..Len(drift) : \A n \in 1..Len(drift) :
        (/\ drift[m].file = drift[n].file
         /\ drift[m].line = drift[n].line
         /\ drift[m].message = drift[n].message) => m = n

\* one table has been compared against two matching tables of other
\* documents and both comparisons lead to the same finding at it
C16_Witness ==
    /\ pc = "drifted"
    /\ LET refs == DriftRefs
           Matched(i, j) == MatchedPair(refs, i, j) \/ MatchedPair(refs, j, i)
       IN \E i \in 1..Len(refs) : \E j \in 1..Len(refs) : \E h \in 1..Len(refs) :
            /\ j # h
            /\ Matched(i, j)
            /\ Matched(i, h)
            /\ \E k \in SharedKeys(refs[i], refs[j])
                          \cap SharedKeys(refs[i], refs[h]) :
                 /\ ValuesUnder(refs[i], k) \ ValuesUnder(refs[j], k) # {}
                 /\ DriftFinding(refs[i], refs[j], k) = DriftFinding(refs[i], refs[h], k)
                 /\ PlacesOf(DriftFinding(refs[i], refs[j], k)) # {}

\* the cell of the row in the column, absent when the row does not reach it
CellAt(row, col) == IF col <= Len(row) THEN {Trim(row[col])} ELSE {}

\* the non-empty cells the rows of the table have in the column
CellsOf(table, col) ==
    UNION {CellAt(table.rows[r], col) : r \in 1..Len(table.rows)} \ {<<>>}

\* the cells x has under the key and y lacks
CellsOnlyIn(x, y, k) ==
    CellsOf(x.table, FirstColumn(x, k))
      \ CellsOf(y.table, FirstColumn(y, k))

\* a finding at x saying that its cells under the key are not found in the
\* document of y
CellsReported(x, y, k) ==
    \E n \in 1..Len(drift) :
      /\ drift[n].file = x.file_idx
      /\ drift[n].line = x.table.line
      /\ drift[n].message =
           DriftMessage(x.table.headers[FirstColumn(x, k)],
                        CellsOnlyIn(x, y, k), ctx_files[y.file_idx].path)

\* the table has a row that stops before its last column
HasShortRow(table) ==
    \E r \in 1..Len(table.rows) : Len(table.rows[r]) < Len(table.headers)

\* C17: drift analysis returns its warnings whatever the lengths of the rows; a
\* row shorter than the header list gives no value to the columns it does
\* not reach, and the cells it has are compared like those of any other row
C17_ShortRows ==
    /\ (pc = "parsed") =>
         LET result == EnumDriftCheck(ctx_files,
                           InScope(ctx_files, config.drift_scope),
                           HistoricalIndices(ctx_files, config.historical_files))
         IN \A n \in 1..Len(result) :
              result[n].severity = Warning /\ result[n].category = EnumDrift
    /\ (pc = "drifted") =>
         LET refs == DriftRefs IN
         \A i \in 1..Len(refs) : \A j \in 1..Len(refs) :
           MatchedPair(refs, i, j) =>
             \A k \in SharedKeys(refs[i], refs[j]) :
               /\ (CellsOnlyIn(refs[i], refs[j], k) # {})
                    => CellsReported(refs[i], refs[j], k)
               /\ (CellsOnlyIn(refs[j], refs[i], k) # {})
                    => CellsReported(refs[j], refs[i], k)

\* a table with a short row has been compared: a cell of the short row is
\* reported, and a shared column the row does not reach has been compared
C17_Witness ==
    /\ pc = "drifted"
    /\ LET refs == DriftRefs IN
       \E i \in 1..Len(refs) : \E j \in 1..Len(refs) :
         /\ MatchedPair(refs, i, j)
         /\ \E r \in 1..Len(refs[i].table.rows) :
              LET row == refs[i].table.rows[r] IN
              /\ Len(row) < Len(refs[i].table.headers)
              /\ \E k \in SharedKeys(refs[i], refs[j]) :
                   /\ FirstColumn(refs[i], k) <= Len(row)
                   /\ Trim(row[FirstColumn(refs[i], k)])
                        \in CellsOnlyIn(refs[i], refs[j], k)
                   /\ CellsReported(refs[i], refs[j], k)
              /\ \E k \in SharedKeys(refs[i], refs[j]) :
                   FirstColumn(refs[i], k) > Len(row)
         /\ \E r \in 1..Len(refs[j].table.rows) :
              Len(refs[j].table.rows[r]) > Len(refs[j].table.headers)

\* the values of the sequence ascend in the order of str
Ascending(seq) ==
    \A m \in 1..Len(seq) : \A n \in 1..Len(seq) :
      m < n => StrLess(seq[m], seq[n])

\* a value as a drift message shows it
ShownValue(v) ==
    IF Len(v) > 50
    THEN <<"\"">> \o SubSeq(v, 1, 50) \o <<".", ".", ".", "\"">>
    ELSE <<"\"">> \o v \o <<"\"">>

\* the drift message at x about the key that lists the values in the order
ListingMessage(x, y, k, seq) ==
    TxtColumn \o x.table.headers[FirstColumn(x, k)] \o TxtHasValues
      \o Join([m \in 1..Len(seq) |-> ShownValue(seq[m])], <<",", " ">>)
      \o TxtNotFoundIn \o FileName(ctx_files[y.file_idx].path)

\* the values only x has under the key are listed in ascending order, each
\* whole or cut
ListedAscending(x, y, k) ==
    \E seq \in Orders(CellsOnlyIn(x, y, k)) :
      /\ Ascending(seq)
      /\ \E n \in 1..Len(drift) :
           /\ drift[n].file = x.file_idx
           /\ drift[n].line = x.table.line
           /\ drift[n].message = ListingMessage(x, y, k, seq)

\* C18: a drift message lists the values in ascending order, a value of at
\* most 50 characters whole and a longer one as its first 50 characters
\* followed by "..."
C18_SortedAndCut ==
    (pc = "drifted") =>
      LET refs == DriftRefs IN
      \A i \in 1..Len(refs) : \A j \in 1..Len(refs) :
        MatchedPair(refs, i, j) =>
          \A k \in SharedKeys(refs[i], refs[j]) :
            /\ (CellsOnlyIn(refs[i], refs[j], k) # {})
                 => ListedAscending(refs[i], refs[j], k)
            /\ (CellsOnlyIn(refs[j], refs[i], k) # {})
                 => ListedAscending(refs[j], refs[i], k)

\* a message lists a value of exactly 50 characters and one of 51, the
\* longer one first although its row comes second
C18_Witness ==
    /\ pc = "drifted"
    /\ LET refs == DriftRefs IN
       \E i \in 1..Len(refs) : \E j \in 1..Len(refs) :
         /\ MatchedPair(refs, i, j) \/ MatchedPair(refs, j, i)
         /\ \E k \in SharedKeys(refs[i], refs[j]) :
              /\ \E v \in CellsOnlyIn(refs[i], refs[j], k) : Len(v) = 50
              /\ \E v \in CellsOnlyIn(refs[i], refs[j], k) : Len(v) = 51
              /\ ListedAscending(refs[i], refs[j], k)
              /\ refs[i].table.rows[1][FirstColumn(refs[i], k)] = ExactValue
              /\ StrLess(LongValue, ExactValue)

----------------------------------------------------------------------------
(* The scoped run: both checkers under scope patterns                       *)

\* the pattern lists of a scope: none, a file name, a file name in another
\* case, a directory, two paths, a name no document has
ScopeLists ==
    {<<>>, <<<<"a",".","m","d">>>>, <<<<"B",".","M","D">>>>, <<<<"x","/","*">>>>,
     <<<<"a",".","m","d">>, <<"x","/","b",".","m","d">>>>, <<<<"c",".","m","d">>>>}

\* what a document of the scoped run holds: nothing, or a heading and a table
ScopeDocumentsAt(path) ==
    {Document(path, <<>>, <<>>),
     Document(path, <<DbId>>, <<OwnerTable>>),
     Document(path, <<<<"d","b","I","d">>>>, <<ArchiveTable>>)}

ScopeCorpora ==
    {<<a, b, c>> : a \in ScopeDocumentsAt(DriftPaths[1]),
                   b \in ScopeDocumentsAt(DriftPaths[2]),
                   c \in ScopeDocumentsAt(DriftPaths[3])}

InitScope ==
    /\ pc = "parsed"
    /\ ctx_files \in ScopeCorpora
    /\ \E naming_scope \in ScopeLists : \E drift_scope \in ScopeLists :
         config = [naming_scope |-> naming_scope, drift_scope |-> drift_scope,
                   historical_files |-> <<>>]
    /\ naming = <<>>
    /\ drift = <<>>
    /\ output = <<>>
    /\ previous = <<>>
    /\ input = <<>>
    /\ key = <<>>
    /\ key2 = <<>>
    /\ words = <<>>
    /\ rendered = <<>>

NextScope == RunNaming \/ RunEnumDrift

SpecScope == InitScope /\ [][NextScope]_vars

----------------------------------------------------------------------------
(* Claims about the scope                                                   *)

\* the document participates: no pattern, or its bare file name or its path
\* relative to the root matches a pattern
Participates(patterns, path) ==
    \/ patterns = <<>>
    \/ \E k \in 1..Len(patterns) :
         \/ GlobMatches(patterns[k], FileName(path))
         \/ GlobMatches(patterns[k], path)

\* the corpus with the documents that do not participate left empty
Emptied(files, patterns) ==
    [f \in 1..Len(files) |->
        IF Participates(patterns, files[f].path) THEN files[f]
        ELSE [files[f] EXCEPT !.sections = <<>>, !.tables = <<>>]]

\* the findings the naming checker can return for the files without a scope
UnscopedNaming(files) ==
    LET groups == BuildGroups(CollectOccurrences(files, 1..Len(files)))
    IN {NamingCheck(groups, order) : order \in Orders(DOMAIN groups)}

\* the findings the drift checker returns for the files without a scope
UnscopedDrift(files) == EnumDriftCheck(files, 1..Len(files), {})

\* the drift finding names a participating document other than its own
NamesParticipant(d) ==
    \E f \in 1..Len(ctx_files) :
      /\ f # d.file
      /\ Participates(config.drift_scope, ctx_files[f].path)
      /\ ctx_files[f].tables # <<>>
      /\ EndsWith(d.message, TxtNotFoundIn \o FileName(ctx_files[f].path))

\* C19: with no scope pattern every document participates; with patterns a
\* document participates only if its bare file name or its relative path
\* matches one; a document that does not participate has no finding, is not
\* the counterpart of one, and the findings are those of the corpus in which
\* it is empty
C19_Scope ==
    /\ NamingReturned =>
         /\ naming \in UnscopedNaming(Emptied(ctx_files, config.naming_scope))
         /\ \A n \in 1..Len(naming) :
              Participates(config.naming_scope, ctx_files[naming[n].file].path)
    /\ DriftReturned =>
         /\ drift = UnscopedDrift(Emptied(ctx_files, config.drift_scope))
         /\ \A n \in 1..Len(drift) :
              /\ Participates(config.drift_scope, ctx_files[drift[n].file].path)
              /\ NamesParticipant(drift[n])

\* both checkers have run under patterns that leave out a document with a
\* heading and a table, and without the scope each would have reported more
C19_Witness ==
    /\ pc = "drifted"
    /\ config.naming_scope # <<>>
    /\ config.drift_scope # <<>>
    /\ \E f \in 1..Len(ctx_files) :
         /\ ~Participates(config.naming_scope, ctx_files[f].path)
         /\ ~Participates(config.drift_scope, ctx_files[f].path)
         /\ ctx_files[f].sections # <<>>
         /\ ctx_files[f].tables # <<>>
    /\ naming # <<>>
    /\ drift # <<>>
    /\ naming \notin UnscopedNaming(ctx_files)
    /\ drift # UnscopedDrift(ctx_files)

----------------------------------------------------------------------------
(* Claims about the order of the output                                     *)

\* s is not greater than t in the order of str
StrNotGreater(s, t) == s = t \/ StrLess(s, t)

\* (document, line, message) of a is not greater than that of b
ByDocumentLineMessage(a, b) ==
    \/ a.file < b.file
    \/ a.file = b.file /\ a.line < b.line
    \/ a.file = b.file /\ a.line = b.line /\ StrNotGreater(a.message, b.message)

\* naming findings come before drift findings
CategoryNotGreater(a, b) ==
    a.category = NamingInconsistency \/ b.category = EnumDrift

\* (document, line, category, message) of a is not greater than that of b
ByDocumentLineCategoryMessage(a, b) ==
    \/ a.file < b.file
    \/ a.file = b.file /\ a.line < b.line
    \/ /\ a.file = b.file
       /\ a.line = b.line
       /\ a.category # b.category
       /\ CategoryNotGreater(a, b)
    \/ /\ a.file = b.file
       /\ a.line = b.line
       /\ a.category = b.category
       /\ StrNotGreater(a.message, b.message)

\* C20 as stated: the output is sorted by document, then line, then message,
\* also where a naming finding and a drift finding share document and line
C20_Original ==
    (pc = "done") =>
      \A n \in 1..(Len(output) - 1) :
        ByDocumentLineMessage(output[n], output[n + 1])

\* C20: the output is sorted by document, then line, then category (naming
\* findings before drift findings), then message
C20_SortedOutput ==
    (pc = "done") =>
      \A n \in 1..(Len(output) - 1) :
        ByDocumentLineCategoryMessage(output[n], output[n + 1])

\* the output holds a naming finding followed by a drift finding of the same
\* document and line whose message is the lesser one, and the checkers
\* pushed the findings in another order than the output has
C20_Witness ==
    /\ pc = "done"
    /\ \E n \in 1..(Len(output) - 1) :
         /\ output[n].file = output[n + 1].file
         /\ output[n].line = output[n + 1].line
         /\ output[n].category = NamingInconsistency
         /\ output[n + 1].category = EnumDrift
         /\ StrLess(output[n + 1].message, output[n].message)
    /\ \E n \in 1..(Len(naming \o drift) - 1) :
         ~ByDocumentLineCategoryMessage((naming \o drift)[n], (naming \o drift)[n + 1])

----------------------------------------------------------------------------
(* The end of run on the findings two checkers pushed                       *)

\* the most findings one checker pushes
MaxFindings == 3

\* a warning about a cluster, as the naming checker pushes it
NamingFinding(file, line, originals) ==
    Diagnostic(file, line, Warning, NamingInconsistency,
               VariantMessage(originals),
               StandardizeSuggestion(originals[1], originals[2]))

\* findings of the naming checker: one, and one that differs from it in the
\* document, one in the line, one in the message
NamingFindings ==
    {NamingFinding(1, 1, <<<<"d","b","I","d">>, DbId>>),
     NamingFinding(2, 1, <<<<"d","b","I","d">>, DbId>>),
     NamingFinding(1, 2, <<<<"d","b","I","d">>, DbId>>),
     NamingFinding(1, 1, <<<<"D","b","I","d">>, DbId>>)}

\* findings of the drift checker on a line the naming findings stand on
DriftFindings ==
    {Diagnostic(1, 1, Warning, EnumDrift,
                DriftMessage(DbId, {<<"x">>}, DriftPaths[2]), TxtAlign),
     Diagnostic(1, 1, Warning, EnumDrift,
                DriftMessage(DbId, {<<"y">>}, DriftPaths[2]), TxtAlign)}

\* two documents without a suppression comment
PlainFiles ==
    <<[Document(DriftPaths[1], <<>>, <<>>) EXCEPT !.total_lines = 2],
      [Document(DriftPaths[2], <<>>, <<>>) EXCEPT !.total_lines = 2]>>

InitFinish ==
    /\ pc = "drifted"
    /\ ctx_files = PlainFiles
    /\ config = DefaultConfig
    /\ naming \in StringsUpTo(NamingFindings, MaxFindings)
    /\ drift \in StringsUpTo(DriftFindings, MaxFindings)
    /\ output = <<>>
    /\ previous = <<>>
    /\ input = <<>>
    /\ key = <<>>
    /\ key2 = <<>>
    /\ words = <<>>
    /\ rendered = <<>>

NextFinish == Finish

SpecFinish == InitFinish /\ [][NextFinish]_vars

----------------------------------------------------------------------------
(* Claims about the dedup                                                   *)

\* the findings the checkers pushed, in the order of the push
Pushed == naming \o drift

\* the findings are equal in document, line, category and message
SameFinding(a, b) ==
    /\ a.file = b.file
    /\ a.line = b.line
    /\ a.category = b.category
    /\ a.message = b.message

\* C21: after sort and dedup the output never holds two findings equal in
\* document, line, category and message, whatever the order of the push, and
\* a pushed finding that differs from every other one in one of these fields
\* is in the output
C21_Dedup ==
    (pc = "done") =>
      /\ \A m \in 1..Len(output) : \A n \in 1..Len(output) :
           SameFinding(output[m], output[n]) => m = n
      /\ \A m \in 1..Len(Pushed) :
           (\A n \in 1..Len(Pushed) : n # m => ~SameFinding(Pushed[m], Pushed[n]))
             => \E n \in 1..Len(output) : output[n] = Pushed[m]

\* the checkers pushed one finding twice, not next to each other, and another
\* finding only once; the output is shorter than the push
C21_Witness ==
    /\ pc = "done"
    /\ \E m \in 1..Len(Pushed) : \E n \in 1..Len(Pushed) :
         /\ m + 1 < n
         /\ SameFinding(Pushed[m], Pushed[n])
    /\ \E m \in 1..Len(Pushed) :
         \A n \in 1..Len(Pushed) : n # m => ~SameFinding(Pushed[m], Pushed[n])
    /\ Len(output) < Len(Pushed)

----------------------------------------------------------------------------
(* The historical run: the drift checker with historical file patterns      *)

\* the pattern lists of historical_files: none, a directory, a file name in
\* another case, a file name, a name no document has
HistoricalLists ==
    {<<>>, <<<<"x","/","*">>>>, <<<<"B",".","M","D">>>>, <<<<"a",".","m","d">>>>, <<<<"c",".","m","d">>>>}

InitHistorical ==
    /\ pc = "parsed"
    /\ ctx_files \in ScopeCorpora
    /\ \E historical_files \in HistoricalLists :
         config = [naming_scope |-> <<>>, drift_scope |-> <<>>,
                   historical_files |-> historical_files]
    /\ naming = <<>>
    /\ drift = <<>>
    /\ output = <<>>
    /\ previous = <<>>
    /\ input = <<>>
    /\ key = <<>>
    /\ key2 = <<>>
    /\ words = <<>>
    /\ rendered = <<>>

NextHistorical == DriftAlone

SpecHistorical == InitHistorical /\ [][NextHistorical]_vars

----------------------------------------------------------------------------
(* Claims about historical documents                                        *)

\* the document is marked historical: its bare file name or its relative
\* path matches a pattern of historical_files
MarkedHistorical(path) ==
    \E k \in 1..Len(config.historical_files) :
      \/ GlobMatches(config.historical_files[k], FileName(path))
      \/ GlobMatches(config.historical_files[k], path)

\* the corpus with the tables of the historical documents taken out
WithoutHistoricalTables(files) ==
    [f \in 1..Len(files) |->
        IF MarkedHistorical(files[f].path)
        THEN [files[f] EXCEPT !.tables = <<>>]
        ELSE files[f]]

\* the drift finding names a document with tables that is not historical
NamesCurrent(d) ==
    \E f \in 1..Len(ctx_files) :
      /\ f # d.file
      /\ ~MarkedHistorical(ctx_files[f].path)
      /\ ctx_files[f].tables # <<>>
      /\ EndsWith(d.message, TxtNotFoundIn \o FileName(ctx_files[f].path))

\* C22: a historical document contributes no table to drift analysis: the
\* findings are those of the corpus without its tables, none stands in it
\* and every one names a document that is not historical
C22_Historical ==
    (pc = "drifted") =>
      /\ drift = UnscopedDrift(WithoutHistoricalTables(ctx_files))
      /\ \A n \in 1..Len(drift) :
           /\ ~MarkedHistorical(ctx_files[drift[n].file].path)
           /\ NamesCurrent(drift[n])

\* a historical document has a table that matches and differs from a table
\* of another document; the other documents still have findings, fewer than
\* without the mark
C22_Witness ==
    /\ pc = "drifted"
    /\ drift # <<>>
    /\ \E f \in 1..Len(ctx_files) :
         /\ MarkedHistorical(ctx_files[f].path)
         /\ \E n \in 1..Len(UnscopedDrift(ctx_files)) :
              UnscopedDrift(ctx_files)[n].file = f
    /\ Len(drift) < Len(UnscopedDrift(ctx_files))

----------------------------------------------------------------------------
(* The matcher run: two documents with one table each                       *)

\* a table that shares no header with the others
KindTable ==
    [headers |-> <<<<"K","i","n","d">>>>,
     rows |-> << <<<<"k">>>> >>]

\* the columns of OwnerTable, the first without a value: an empty cell and a
\* cell of spaces
BlankTable ==
    [headers |-> <<<<"s","t","a","t","u","s">>, <<"o","w","n","e","r">>>>,
     rows |-> << <<<<>>, <<"x">>>>, <<<<" "," ">>, <<" ","x"," ">>>> >>]

\* the tables of the matcher run
MatchTables ==
    {OwnerTable, ArchiveTable, NameTable, TwiceTable, KindTable, BlankTable}

\* the headings of the matcher run: none, two close titles, another
MatchParents == FirstParents \cup SecondParents

\* a document with one table, under a heading or under none
MatchDocumentsAt(path) ==
    {Document(path, parent, <<table>>) :
        parent \in MatchParents, table \in MatchTables}

MatchCorpora ==
    {<<a, b>> : a \in MatchDocumentsAt(DocPaths[1]),
                b \in MatchDocumentsAt(DocPaths[2])}

InitMatch ==
    /\ pc = "parsed"
    /\ ctx_files \in MatchCorpora
    /\ config = DefaultConfig
    /\ naming = <<>>
    /\ drift = <<>>
    /\ output = <<>>
    /\ previous = <<>>
    /\ input = <<>>
    /\ key = <<>>
    /\ key2 = <<>>
    /\ words = <<>>
    /\ rendered = <<>>

NextMatch == DriftAlone

SpecMatch == InitMatch /\ [][NextMatch]_vars

----------------------------------------------------------------------------
(* Claims about the matcher run                                             *)

\* C23: whether two tables match does not depend on which of them is taken
\* first, also when two header labels of a table have the same key
C23_Symmetric ==
    (pc = "drifted") =>
      LET refs == DriftRefs IN
      \A i \in 1..Len(refs) : \A j \in 1..Len(refs) :
        tables_match(refs[i], refs[j]) = tables_match(refs[j], refs[i])

\* a finding stands at one of the two tables and names the other document
FindingBetween(x, y) ==
    \E n \in 1..Len(drift) :
      FindingOfPair(drift[n], x, y) \/ FindingOfPair(drift[n], y, x)

\* every value under a shared key that one of the two tables lacks is reported
ComparedForDrift(x, y) ==
    \A k \in SharedKeys(x, y) :
      /\ (CellsOnlyIn(x, y, k) # {}) => CellsReported(x, y, k)
      /\ (CellsOnlyIn(y, x, k) # {}) => CellsReported(y, x, k)

\* C25: two tables of different documents that share exactly one header by
\* normalized key match when both stand under a section title and the titles
\* have a similarity of 0.8 or more; two tables that share no header never
\* match, whatever their section titles
C25_SectionFallback ==
    (pc = "drifted") =>
      LET refs == DriftRefs IN
      \A i \in 1..Len(refs) : \A j \in 1..Len(refs) :
        (refs[i].file_idx # refs[j].file_idx) =>
          /\ (/\ Cardinality(SharedKeys(refs[i], refs[j])) = 1
              /\ TitlesAgree(refs[i].table, refs[j].table))
               => ComparedForDrift(refs[i], refs[j])
          /\ (SharedKeys(refs[i], refs[j]) = {})
               => ~FindingBetween(refs[i], refs[j])

\* two tables with one shared header stand under two different titles that
\* are similar, and the values under the shared header are reported on both
\* sides
C25_Witness ==
    /\ pc = "drifted"
    /\ LET refs == DriftRefs IN
       \E i \in 1..Len(refs) : \E j \in 1..Len(refs) :
         /\ refs[i].file_idx < refs[j].file_idx
         /\ Cardinality(SharedKeys(refs[i], refs[j])) = 1
         /\ SharedCount(refs[i], refs[j]) = 1
         /\ TitlesAgree(refs[i].table, refs[j].table)
         /\ refs[i].table.parent_section # refs[j].table.parent_section
         /\ \E k \in SharedKeys(refs[i], refs[j]) :
              /\ CellsOnlyIn(refs[i], refs[j], k) # {}
              /\ CellsOnlyIn(refs[j], refs[i], k) # {}
              /\ CellsReported(refs[i], refs[j], k)
              /\ CellsReported(refs[j], refs[i], k)

\* the columns of the two tables that have one normalized key
SharedColumns(x, y) ==
    {c \in (1..Len(x.normalized_headers)) \X (1..Len(y.normalized_headers)) :
        x.normalized_headers[c[1]] = y.normalized_headers[c[2]]}

StartsWith(s, t) == Len(t) <= Len(s) /\ SubSeq(s, 1, Len(t)) = t

\* the finding lists the non-empty trimmed cells that a column of x has and
\* the column of y with the same key lacks
ListsOwnValues(d, x, y) ==
    /\ d.file = x.file_idx
    /\ d.line = x.table.line
    /\ \E c \in SharedColumns(x, y) :
         LET diff == CellsOf(x.table, c[1]) \ CellsOf(y.table, c[2]) IN
         /\ diff # {}
         /\ d.message = DriftMessage(x.table.headers[c[1]], diff,
                                     ctx_files[y.file_idx].path)

\* a finding at x about its column
FindingAbout(x, col) ==
    \E n \in 1..Len(drift) :
      /\ drift[n].file = x.file_idx
      /\ drift[n].line = x.table.line
      /\ StartsWith(drift[n].message,
                    TxtColumn \o x.table.headers[col] \o TxtHasValues)

\* C24: every value a drift finding lists is a non-empty trimmed cell of the
\* shared column of the owning table that the column of the counterpart
\* lacks; a shared column with equal sets of trimmed non-empty values has no
\* finding; an empty cell is never a value
C24_ListedValues ==
    (pc = "drifted") =>
      LET refs == DriftRefs IN
      /\ \A n \in 1..Len(drift) :
           \E i \in 1..Len(refs) : \E j \in 1..Len(refs) :
             /\ refs[i].file_idx # refs[j].file_idx
             /\ ListsOwnValues(drift[n], refs[i], refs[j])
      /\ \A i \in 1..Len(refs) : \A j \in 1..Len(refs) :
           (refs[i].file_idx # refs[j].file_idx) =>
             \A k \in SharedKeys(refs[i], refs[j]) :
               (CellsOf(refs[i].table, FirstColumn(refs[i], k))
                  = CellsOf(refs[j].table, FirstColumn(refs[j], k)))
                 => ~FindingAbout(refs[i], FirstColumn(refs[i], k))

----------------------------------------------------------------------------
(* The segment run: keys of one segment beside close keys of two            *)

\* two keys of two segments and two of one segment, all close to each other
SegmentTitles ==
    {<<"s","t","a","t","u","s","_","c","o","d","e">>, <<"s","t","a","t","u","s","_","c","o","d","e","s">>, <<"s","t","a","t","u","s","c","o","d","e">>, <<"s","t","a","t","u","s","c","o","d","e","s">>}

InitSegments == InitHeadings(HeadingCorpora(SegmentTitles))

NextSegments == RunNaming

SpecSegments == InitSegments /\ [][NextSegments]_vars

----------------------------------------------------------------------------
(* The document-set run: both documents with several headings               *)

\* two close keys, one of them in two spellings
SameSetTitles == {DbId, DbIds, <<"d","b","I","d">>}

\* the corpora in which each of the two documents has up to MaxNearSections
\* headings out of the pool
TwoSidedCorpora(pool) ==
    {<<Document(DocPaths[1], titles, <<>>), Document(DocPaths[2], other, <<>>)>> :
        titles \in StringsUpTo(pool, MaxNearSections),
        other \in StringsUpTo(pool, MaxNearSections)}

InitSameSet == InitHeadings(TwoSidedCorpora(SameSetTitles))

NextSameSet == RunNaming

SpecSameSet == InitSameSet /\ [][NextSameSet]_vars

----------------------------------------------------------------------------
(* The version run: headings that differ in a digit or in a letter          *)

\* two versions of one name, a name that differs from them in a letter, and
\* two numbers
VersionTitles ==
    {<<"A","l","g","o","r","i","t","h","m"," ","v","6">>, <<"A","l","g","o","r","i","t","h","m"," ","v","7">>, <<"A","l","g","o","r","i","t","h","m"," ","w","6">>,
     <<"2","0","2","4"," ","1","0","0","1">>, <<"2","0","2","4"," ","1","0","0","2">>}

InitVersions == InitHeadings(HeadingCorpora(VersionTitles))

NextVersions == RunNaming

SpecVersions == InitVersions /\ [][NextVersions]_vars

----------------------------------------------------------------------------
(* Claims about the candidate keys and the last two filters                 *)

\* the finding stands at an occurrence of the group
AtOccurrenceOf(d, group) ==
    \E k \in 1..Len(group) :
      d.file = group[k].file_idx /\ d.line = group[k].line

\* C26: the near-miss detector pairs only keys of 2 or more normalized
\* segments: every info stands at an occurrence of such a key and is about a
\* pair of two such keys
C26_TwoSegments ==
    NamingReturned =>
      LET groups == Groups IN
      \A n \in 1..Len(naming) :
        (naming[n].severity = Info) =>
          \E g \in DOMAIN groups : \E h \in DOMAIN groups \ {g} :
            /\ SegmentCount(g) >= 2
            /\ SegmentCount(h) >= 2
            /\ naming[n].message \in PairMessages(groups, g, h)
            /\ \/ AtOccurrenceOf(naming[n], groups[g])
               \/ AtOccurrenceOf(naming[n], groups[h])

\* a key of one segment is close to a key of two segments of another
\* document and no filter applies, yet the pair has no info, while a pair of
\* two-segment keys has its infos
C26_Witness ==
    /\ pc = "named"
    /\ LET groups == Groups IN
       /\ \E g \in DOMAIN groups : \E h \in DOMAIN groups \ {g} :
            /\ SegmentCount(g) = 1
            /\ SegmentCount(h) >= 2
            /\ Close(g, h)
            /\ ~Suppressed(groups, g, h)
            /\ PairInfos(groups, g, h) = {}
       /\ \E g \in DOMAIN groups : \E h \in DOMAIN groups \ {g} :
            /\ SegmentCount(g) >= 2
            /\ SegmentCount(h) >= 2
            /\ PairInfos(groups, g, h) # {}

\* C27: if the two clusters of a pair occur in exactly the same set of
\* documents, the pair has no info, however similar the keys; two similar
\* keys of one document alone produce nothing
C27_SameDocuments ==
    NamingReturned =>
      LET groups == Groups IN
      /\ \A g \in DOMAIN groups : \A h \in DOMAIN groups \ {g} :
           ({groups[g][k].file_idx : k \in 1..Len(groups[g])}
              = {groups[h][k].file_idx : k \in 1..Len(groups[h])})
             => PairInfos(groups, g, h) = {}
      /\ (\E f \in 1..Len(ctx_files) :
            \A g \in DOMAIN groups : \A k \in 1..Len(groups[g]) :
              groups[g][k].file_idx = f)
           => naming = <<>>

\* two close keys of two segments, each in both documents, that no other
\* filter covers, have no info
C27_Witness ==
    /\ pc = "named"
    /\ LET groups == Groups IN
       \E g \in DOMAIN groups : \E h \in DOMAIN groups \ {g} :
         /\ SegmentCount(g) >= 2
         /\ SegmentCount(h) >= 2
         /\ Close(g, h)
         /\ ~DateSuppressed(groups, g, h)
         /\ ~PrefixSuppressed(groups, g, h)
         /\ ~DigitsSuppressed(groups, g, h)
         /\ ~KeyValueSuppressed(groups, g, h)
         /\ {groups[g][k].file_idx : k \in 1..Len(groups[g])} = {1, 2}
         /\ {groups[h][k].file_idx : k \in 1..Len(groups[h])} = {1, 2}
         /\ PairInfos(groups, g, h) = {}

\* the spelling without the characters 0 to 9
Remainder(s) ==
    LET Kept(c) == c \notin {"0", "1", "2", "3", "4", "5", "6", "7", "8", "9"}
    IN SelectSeq(s, Kept)

\* C28: if the representative spellings of the two clusters of a pair are
\* identical and not empty once all digits are removed, the pair has no info
C28_DigitsSkipped ==
    NamingReturned =>
      LET groups == Groups IN
      \A g \in DOMAIN groups : \A h \in DOMAIN groups \ {g} :
        (/\ Remainder(Representative(groups[g])) # <<>>
         /\ Remainder(Representative(groups[g]))
              = Remainder(Representative(groups[h])))
          => PairInfos(groups, g, h) = {}

\* "Algorithm v6" in one document and "Algorithm v7" in the other: close
\* keys that only the digit filter keeps from being reported, beside a pair
\* that differs in a letter and is reported
C28_Witness ==
    /\ pc = "named"
    /\ LET groups == Groups IN
       /\ \E g \in DOMAIN groups : \E h \in DOMAIN groups \ {g} :
            /\ Remainder(Representative(groups[g])) # <<>>
            /\ Remainder(Representative(groups[g]))
                 = Remainder(Representative(groups[h]))
            /\ \E c \in 1..Len(Representative(groups[g])) :
                 ~IsDigit(Representative(groups[g])[c])
                   /\ ~IsSpace(Representative(groups[g])[c])
            /\ SegmentCount(g) >= 2
            /\ SegmentCount(h) >= 2
            /\ Close(g, h)
            /\ ~DateSuppressed(groups, g, h)
            /\ ~PrefixSuppressed(groups, g, h)
            /\ ~KeyValueSuppressed(groups, g, h)
            /\ ~DocumentSetSuppressed(groups, g, h)
            /\ PairInfos(groups, g, h) = {}
       /\ \E g \in DOMAIN groups : \E h \in DOMAIN groups \ {g} :
            PairInfos(groups, g, h) # {}

----------------------------------------------------------------------------
(* The suppression run: run on a file with inline suppression comments      *)

\* the most suppression comments of the file
MaxComments == 3

\* the rules a comment can carry: none, or the name of a category
CommentRules == {<<>>, <<NamingInconsistency>>}

\* the comments a file can hold, the k-th one on line 2k
CommentLists ==
    UNION {[1..n -> [kind : {Disable, Enable, DisableNextLine},
                     rule : CommentRules]] : n \in 0..MaxComments}

InlineSuppress(comments) ==
    [k \in 1..Len(comments) |->
        [line |-> 2 * k, kind |-> comments[k].kind, rule |-> comments[k].rule]]

\* the lines of the file: one after the place of the last comment
SuppressLines == 1..(2 * MaxComments + 1)

\* a.md with the comments, b.md without a comment
SuppressFiles(comments) ==
    <<[Document(DriftPaths[1], <<>>, <<>>)
         EXCEPT !.suppress_comments = InlineSuppress(comments),
                !.total_lines = 2 * MaxComments + 1],
      [Document(DriftPaths[2], <<>>, <<>>)
         EXCEPT !.total_lines = 2 * MaxComments + 1]>>

\* the checkers pushed a naming finding and a drift finding on one line of
\* a.md and a naming finding on that line of b.md
InitSuppress ==
    /\ pc = "drifted"
    /\ \E comments \in CommentLists : ctx_files = SuppressFiles(comments)
    /\ config = DefaultConfig
    /\ \E line \in SuppressLines :
         /\ naming = <<NamingFinding(1, line, <<<<"d","b","I","d">>, DbId>>),
                       NamingFinding(2, line, <<<<"d","b","I","d">>, DbId>>)>>
         /\ drift = <<Diagnostic(1, line, Warning, EnumDrift,
                          DriftMessage(DbId, {<<"x">>}, DriftPaths[2]), TxtAlign)>>
    /\ output = <<>>
    /\ previous = <<>>
    /\ input = <<>>
    /\ key = <<>>
    /\ key2 = <<>>
    /\ words = <<>>
    /\ rendered = <<>>

NextSuppress == Finish

SpecSuppress == InitSuppress /\ [][NextSuppress]_vars

----------------------------------------------------------------------------
(* Claims about inline suppression                                          *)

\* the comments of the file
CommentsOf(f) == ctx_files[f].suppress_comments

\* the ranges run builds for the file
RangesOf(f) == build_ranges(CommentsOf(f), ctx_files[f].total_lines)

\* disable comments minus enable comments with the rule, from comment a to
\* comment b
OpenBalance(comments, rule, a, b) ==
    Cardinality({k \in a..b : comments[k].kind = Disable /\ comments[k].rule = rule})
      - Cardinality({k \in a..b : comments[k].kind = Enable /\ comments[k].rule = rule})

\* the enable comment e closes the disable comment d: d has the same rule
\* and is the most recently opened one that is still open at e, that is,
\* every disable with the rule opened between them is closed before e
Closes(comments, d, e) ==
    /\ d < e
    /\ comments[d].kind = Disable
    /\ comments[e].kind = Enable
    /\ comments[d].rule = comments[e].rule
    /\ OpenBalance(comments, comments[d].rule, d + 1, e - 1) = 0
    /\ \A m \in (d + 1)..(e - 1) :
         OpenBalance(comments, comments[d].rule, d + 1, m) >= 0

\* the ranges the comments stand for
ExpectedRanges(comments, total_lines) ==
    LET all == 1..Len(comments) IN
    {[rule |-> comments[d].rule, start_line |-> comments[d].line,
      end_line |-> comments[e].line] :
        <<d, e>> \in {p \in all \X all : Closes(comments, p[1], p[2])}}
    \cup
    {[rule |-> comments[d].rule, start_line |-> comments[d].line,
      end_line |-> total_lines] :
        d \in {x \in all : /\ comments[x].kind = Disable
                           /\ \A e \in all : ~Closes(comments, x, e)}}
    \cup
    {[rule |-> comments[k].rule, start_line |-> comments[k].line + 1,
      end_line |-> comments[k].line + 1] :
        k \in {x \in all : comments[x].kind = DisableNextLine}}

\* the number of ranges the comments stand for: one for each disable and
\* each disable-next-line
ExpectedCount(comments) ==
    Cardinality({k \in 1..Len(comments) : comments[k].kind # Enable})

\* C29: an enable closes the most recently opened, still open disable of the
\* same rule and yields the range from that line to its own; an enable
\* without such a disable yields nothing; a disable still open at the end
\* yields a range to the last line; a disable-next-line at line K yields the
\* range [K+1, K+1]
C29_Ranges ==
    (pc = "done") =>
      \A f \in 1..Len(ctx_files) :
        LET ranges == RangesOf(f) IN
        /\ Range(ranges) = ExpectedRanges(CommentsOf(f), ctx_files[f].total_lines)
        /\ Len(ranges) = ExpectedCount(CommentsOf(f))

\* two disables of one rule are open when an enable of that rule comes: it
\* closes the second, and the first runs to the end of the file
C29_Witness ==
    /\ pc = "done"
    /\ LET comments == CommentsOf(1) IN
       /\ Len(comments) = 3
       /\ Closes(comments, 2, 3)
       /\ comments[1].kind = Disable
       /\ comments[1].rule = comments[2].rule
       /\ [rule |-> comments[1].rule, start_line |-> comments[1].line,
           end_line |-> ctx_files[1].total_lines] \in Range(RangesOf(1))

\* a range of the finding's own file covers its line and names no rule or
\* the finding's category
Covered(d) ==
    \E r \in Range(RangesOf(d.file)) :
      /\ r.start_line <= d.line
      /\ d.line <= r.end_line
      /\ (r.rule = <<>> \/ r.rule = <<d.category>>)

\* the finding is in what run returns
Returned(d) == \E m \in 1..Len(output) : output[m] = d

\* C30: a pushed finding is removed exactly when a range of its own file
\* covers its line and names no rule or exactly its category; a range that
\* names a rule removes no finding of another category, a range without a
\* rule removes every category, and a file without a range loses no finding
C30_Suppressed ==
    (pc = "done") =>
      /\ \A n \in 1..Len(Pushed) : Returned(Pushed[n]) <=> ~Covered(Pushed[n])
      /\ \A n \in 1..Len(Pushed) :
           LET d == Pushed[n] IN
           /\ (\A r \in Range(RangesOf(d.file)) :
                 r.rule # <<>> /\ r.rule # <<d.category>>) => Returned(d)
           /\ (\E r \in Range(RangesOf(d.file)) :
                 /\ r.rule = <<>>
                 /\ r.start_line <= d.line
                 /\ d.line <= r.end_line) => ~Returned(d)
           /\ (RangesOf(d.file) = <<>>) => Returned(d)

\* the only range over the line names the naming rule: the naming finding of
\* a.md is removed, the drift finding on the same line and the naming finding
\* on that line of b.md stay
C30_Witness ==
    /\ pc = "done"
    /\ RangesOf(1) # <<>>
    /\ \A r \in Range(RangesOf(1)) : r.rule = <<NamingInconsistency>>
    /\ ~Returned(naming[1])
    /\ Returned(naming[2])
    /\ Returned(drift[1])

====
